---------------------------- MODULE Spec2Model ----------------------------
(***************************************************************************)
(* A model of lobbyharvest's record normalisation and merge layer          *)
(* (src/lobbyharvest/src/utils/normalize.py) and of the orchestrator that  *)
(* feeds it (src/lobbyharvest/src/aggregator.py).                          *)
(*                                                                         *)
(* Python strings are TLA+ strings; the text functions work on the         *)
(* sequence of their one-character strings (Chars) and give a string back  *)
(* (Str).  A Python dict is a function from the keys it has to their        *)
(* values, a value being a string or None.                                 *)
(***************************************************************************)
EXTENDS Integers, Sequences, FiniteSets, TLC

(***************************************************************************)
(* Strings and characters                                                  *)
(***************************************************************************)
Chars(s) == [i \in 1..Len(s) |-> SubSeq(s, i, i)]

RECURSIVE Str(_)
Str(cs) == IF cs = <<>> THEN "" ELSE Head(cs) \o Str(Tail(cs))

\* The ASCII printable characters in code-point order: 32 (space) to 95,
\* and 97 to 126 (96, the backquote, cannot be written in a TLA+ string).
AsciiLow == Chars(" !\"#$%&'()*+,-./0123456789:;<=>?@ABCDEFGHIJKLMNOPQRSTUVWXYZ[\\]^_")
AsciiHigh == Chars("abcdefghijklmnopqrstuvwxyz{|}~")

Alphabet ==
    {AsciiLow[i] : i \in 1..Len(AsciiLow)} \cup {AsciiHigh[i] : i \in 1..Len(AsciiHigh)}
        \cup {"\t", "\n"}

CodePoint ==
    [c \in Alphabet |->
        IF c = "\t" THEN 9
        ELSE IF c = "\n" THEN 10
        ELSE IF \E i \in 1..Len(AsciiLow) : AsciiLow[i] = c
             THEN 31 + (CHOOSE i \in 1..Len(AsciiLow) : AsciiLow[i] = c)
             ELSE 96 + (CHOOSE i \in 1..Len(AsciiHigh) : AsciiHigh[i] = c)]

\* ord(c)
Ord(c) == CodePoint[c]

\* chr(n), for 32 <= n <= 126 and n # 96
Chr(n) == IF n <= 95 THEN AsciiLow[n - 31] ELSE AsciiHigh[n - 96]

InRange(n, lo, hi) == n >= lo /\ n <= hi

IsLowerChar(c) == InRange(Ord(c), 97, 122)
IsUpperChar(c) == InRange(Ord(c), 65, 90)
IsDigitChar(c) == InRange(Ord(c), 48, 57)

\* str.upper() on one (ASCII) character
UpperChar(c) == IF IsLowerChar(c) THEN Chr(Ord(c) - 32) ELSE c

\* str.lower() on one (ASCII) character
LowerChar(c) == IF IsUpperChar(c) THEN Chr(Ord(c) + 32) ELSE c

\* the regular-expression class \s
IsSpaceChar(c) == c \in {" ", "\t", "\n"}

\* the regular-expression class \w
IsWordChar(c) == IsLowerChar(c) \/ IsUpperChar(c) \/ IsDigitChar(c) \/ c = "_"

\* Python's  a < b  on strings: lexicographic by code point
RECURSIVE SeqLess(_, _)
SeqLess(a, b) ==
    IF b = <<>> THEN FALSE
    ELSE IF a = <<>> THEN TRUE
    ELSE IF Ord(Head(a)) # Ord(Head(b)) THEN Ord(Head(a)) < Ord(Head(b))
    ELSE SeqLess(Tail(a), Tail(b))

StrLess(a, b) == SeqLess(Chars(a), Chars(b))

\* min(a, b) and max(a, b) on strings (the first argument on a tie)
StrMin(a, b) == IF StrLess(b, a) THEN b ELSE a
StrMax(a, b) == IF StrLess(a, b) THEN b ELSE a

\* str.strip(): whitespace off both ends
RECURSIVE LStrip(_)
LStrip(cs) == IF cs # <<>> /\ IsSpaceChar(Head(cs)) THEN LStrip(Tail(cs)) ELSE cs

RECURSIVE RStrip(_)
RStrip(cs) ==
    IF cs # <<>> /\ IsSpaceChar(cs[Len(cs)]) THEN RStrip(SubSeq(cs, 1, Len(cs) - 1)) ELSE cs

Strip(cs) == RStrip(LStrip(cs))

(***************************************************************************)
(* None and truthiness                                                     *)
(***************************************************************************)
\* Python's None.  No text of the model's inputs equals this string.
None == "<None>"

\* bool(v) for v a string or None:  `if v`  /  `if not v`
Truthy(v) == v # None /\ v # ""

(***************************************************************************)
(* normalize_firm_name                                                     *)
(***************************************************************************)
\* The alternation of the suffix pattern, in its order.
CorporateSuffixes ==
    << "LLC", "LTD", "LIMITED", "INC", "INCORPORATED", "CORP", "CORPORATION", "PLC" >>

\* (LLC|...|PLC)\.?$ matched against the whole of cs; $ also matches before
\* one final newline.
MatchesSuffixToEnd(cs) ==
    \E k \in 1..Len(CorporateSuffixes) :
        \E tail \in {<<>>, <<".">>, <<"\n">>, <<".", "\n">>} :
            cs = Chars(CorporateSuffixes[k]) \o tail

\* \s+(...)\.?$ matched starting at position i of cs
SuffixMatchAt(cs, i) ==
    /\ IsSpaceChar(cs[i])
    /\ \E j \in (i + 1)..Len(cs) :
          /\ \A k \in i..(j - 1) : IsSpaceChar(cs[k])
          /\ MatchesSuffixToEnd(SubSeq(cs, j, Len(cs)))

\* re.sub(r'\s+(LLC|...|PLC)\.?$', '', name): the leftmost match is removed;
\* a final newline the $ stopped in front of stays.
CutAtFirst(cs, starts) ==
    IF starts = {} THEN cs
    ELSE SubSeq(cs, 1, (CHOOSE m \in starts : \A n \in starts : m <= n) - 1)
           \o (IF cs[Len(cs)] = "\n" THEN <<"\n">> ELSE <<>>)

StripSuffix(cs) == CutAtFirst(cs, {i \in 1..Len(cs) : SuffixMatchAt(cs, i)})

\* A slip that leaves the colon in.
RemovePunct_but_colon(cs) ==
    SelectSeq(cs, LAMBDA c : IsWordChar(c) \/ IsSpaceChar(c) \/ c = ":")

\* re.sub(r'[^\w\s]', '', name)
RemovePunct(cs) == SelectSeq(cs, LAMBDA c : IsWordChar(c) \/ IsSpaceChar(c))

\* re.sub(r'\s+', ' ', name): every run of whitespace becomes one space
RECURSIVE CollapseSpace(_)
CollapseSpace(cs) ==
    IF cs = <<>> THEN <<>>
    ELSE IF IsSpaceChar(Head(cs))
         THEN <<" ">> \o CollapseSpace(LStrip(cs))
         ELSE <<Head(cs)>> \o CollapseSpace(Tail(cs))

UpperSeq(cs) == [i \in 1..Len(cs) |-> UpperChar(cs[i])]

normalize_firm_name(name) ==
    IF ~Truthy(name) THEN ""
    ELSE Str(Strip(CollapseSpace(RemovePunct(StripSuffix(UpperSeq(Chars(name)))))))

(***************************************************************************)
(* datetime.strptime and strftime, as normalize_date uses them             *)
(***************************************************************************)
\* The formats of date_formats, in their order, each as the sequence of its
\* directives and literal characters.
date_formats ==
    << << "%Y", "-", "%m", "-", "%d" >>,
       << "%d", "/", "%m", "/", "%Y" >>,
       << "%m", "/", "%d", "/", "%Y" >>,
       << "%d", "-", "%m", "-", "%Y" >>,
       << "%Y", "/", "%m", "/", "%d" >>,
       << "%d", " ", "%B", " ", "%Y" >>,
       << "%B", " ", "%d", ",", " ", "%Y" >>,
       << "%Y", "%m", "%d" >> >>

\* Full month names of the C locale, in the order strptime's %B alternation
\* lists them (longest first, calendar order among equals), with the month.
MonthNames ==
    << <<"september", 9>>, <<"february", 2>>, <<"november", 11>>, <<"december", 12>>,
       <<"january", 1>>, <<"october", 10>>, <<"august", 8>>, <<"march", 3>>,
       <<"april", 4>>, <<"june", 6>>, <<"july", 7>>, <<"may", 5>> >>

LowerSeq(cs) == [i \in 1..Len(cs) |-> LowerChar(cs[i])]

DigitAt(cs, i) == i >= 1 /\ i <= Len(cs) /\ IsDigitChar(cs[i])
DigitIn(cs, i, lo, hi) == i >= 1 /\ i <= Len(cs) /\ InRange(Ord(cs[i]), 48 + lo, 48 + hi)

\* int() of a run of digits, a leading space allowed (as in ' 5')
RECURSIVE ToInt(_)
ToInt(cs) ==
    IF cs = <<>> THEN 0
    ELSE IF cs[Len(cs)] = " " THEN ToInt(SubSeq(cs, 1, Len(cs) - 1))
    ELSE 10 * ToInt(SubSeq(cs, 1, Len(cs) - 1)) + (Ord(cs[Len(cs)]) - 48)

\* The lengths, in the regular expression's order of preference, of the
\* texts at position pos of cs that one element of a format can match.
\*   %Y  \d\d\d\d
\*   %m  1[0-2]|0[1-9]|[1-9]
\*   %d  3[0-1]|[1-2]\d|0[1-9]|[1-9]| [1-9]
\*   %B  the month names, case ignored
\*   %b  their first three letters, case ignored
\*   ' ' \s+ (greedy)
\*   any other character: itself
ElementLengths(el, cs, pos) ==
    IF el = "%Y" THEN
        IF \A k \in 0..3 : DigitAt(cs, pos + k) THEN <<4>> ELSE <<>>
    ELSE IF el = "%m" THEN
        (IF DigitIn(cs, pos, 1, 1) /\ DigitIn(cs, pos + 1, 0, 2) THEN <<2>> ELSE <<>>)
        \o (IF DigitIn(cs, pos, 0, 0) /\ DigitIn(cs, pos + 1, 1, 9) THEN <<2>> ELSE <<>>)
        \o (IF DigitIn(cs, pos, 1, 9) THEN <<1>> ELSE <<>>)
    ELSE IF el = "%d" THEN
        (IF DigitIn(cs, pos, 3, 3) /\ DigitIn(cs, pos + 1, 0, 1) THEN <<2>> ELSE <<>>)
        \o (IF DigitIn(cs, pos, 1, 2) /\ DigitAt(cs, pos + 1) THEN <<2>> ELSE <<>>)
        \o (IF DigitIn(cs, pos, 0, 0) /\ DigitIn(cs, pos + 1, 1, 9) THEN <<2>> ELSE <<>>)
        \o (IF DigitIn(cs, pos, 1, 9) THEN <<1>> ELSE <<>>)
        \o (IF pos + 1 <= Len(cs) /\ cs[pos] = " " /\ DigitIn(cs, pos + 1, 1, 9)
            THEN <<2>> ELSE <<>>)
    ELSE IF el = "%B" THEN
        LET hit(k) == LET nm == Chars(MonthNames[k][1])
                      IN  /\ pos + Len(nm) - 1 <= Len(cs)
                          /\ LowerSeq(SubSeq(cs, pos, pos + Len(nm) - 1)) = nm
            ks == SelectSeq([k \in 1..Len(MonthNames) |-> k], hit)
        IN  [j \in 1..Len(ks) |-> Len(MonthNames[ks[j]][1])]
    ELSE IF el = "%b" THEN
        IF /\ pos + 2 <= Len(cs)
           /\ \E k \in 1..Len(MonthNames) :
                 SubSeq(Chars(MonthNames[k][1]), 1, 3) = LowerSeq(SubSeq(cs, pos, pos + 2))
        THEN <<3>> ELSE <<>>
    ELSE IF el = " " THEN
        LET run == Len(cs) - pos + 1 - Len(LStrip(SubSeq(cs, pos, Len(cs))))
        IN  [j \in 1..run |-> run + 1 - j]
    ELSE
        IF pos <= Len(cs) /\ cs[pos] = el THEN <<1>> ELSE <<>>

\* The value a directive's text stands for (0 for a literal).
ElementValue(el, txt) ==
    IF el \in {"%Y", "%m", "%d"} THEN ToInt(txt)
    ELSE IF el = "%B"
         THEN LET k == CHOOSE k \in 1..Len(MonthNames) :
                           Chars(MonthNames[k][1]) = LowerSeq(txt)
              IN  MonthNames[k][2]
    ELSE IF el = "%b"
         THEN LET k == CHOOSE k \in 1..Len(MonthNames) :
                           SubSeq(Chars(MonthNames[k][1]), 1, 3) = LowerSeq(txt)
              IN  MonthNames[k][2]
         ELSE 0

NoMatch == [ok |-> FALSE, end |-> 0, Y |-> 0, m |-> 0, d |-> 0]

\* The groups found so far, with the text txt matched by element el added.
Capture(got, el, txt) ==
    IF el = "%Y" THEN [got EXCEPT !.Y = ElementValue(el, txt)]
    ELSE IF el \in {"%m", "%B", "%b"} THEN [got EXCEPT !.m = ElementValue(el, txt)]
    ELSE IF el = "%d" THEN [got EXCEPT !.d = ElementValue(el, txt)]
    ELSE got

\* re.match of the format's pattern at the start of cs, with the regular
\* expression's backtracking: the elements from the k-th on are matched
\* from position pos, the k-th element's alternatives (lens, in order) tried
\* from the c-th on until the rest of the pattern matches too.
RECURSIVE MatchFrom(_, _, _, _, _, _)
RECURSIVE MatchAlternative(_, _, _, _, _, _, _)
RECURSIVE MatchRest(_, _, _, _, _, _, _)

MatchFrom(fmt, k, cs, pos, c, got) ==
    IF k > Len(fmt) THEN [got EXCEPT !.ok = TRUE, !.end = pos]
    ELSE MatchAlternative(fmt, k, cs, pos, c, got, ElementLengths(fmt[k], cs, pos))

MatchAlternative(fmt, k, cs, pos, c, got, lens) ==
    IF c > Len(lens) THEN NoMatch
    ELSE MatchRest(fmt, k, cs, pos, c, got,
                   MatchFrom(fmt, k + 1, cs, pos + lens[c], 1,
                             Capture(got, fmt[k], SubSeq(cs, pos, pos + lens[c] - 1))))

MatchRest(fmt, k, cs, pos, c, got, rest) ==
    IF rest.ok THEN rest ELSE MatchFrom(fmt, k, cs, pos, c + 1, got)

\* calendar.isleap
IsLeap(y) == y % 4 = 0 /\ (y % 100 # 0 \/ y % 400 = 0)

DaysInMonth(y, m) ==
    IF m = 2 THEN (IF IsLeap(y) THEN 29 ELSE 28)
    ELSE IF m \in {4, 6, 9, 11} THEN 30 ELSE 31

\* datetime.date(y, m, d) does not raise ValueError (MINYEAR is 1)
ValidDate(y, m, d) == y >= 1 /\ y <= 9999 /\ m >= 1 /\ m <= 12 /\ d >= 1 /\ d <= DaysInMonth(y, m)

\* datetime.strptime(text, fmt): the parsed date, or ok = FALSE for ValueError
\* (no match, unconverted data remains, or no such day).
CheckFound(found, cs) ==
    IF found.ok /\ found.end = Len(cs) + 1 /\ ValidDate(found.Y, found.m, found.d)
    THEN found ELSE NoMatch

strptime(cs, fmt) == CheckFound(MatchFrom(fmt, 1, cs, 1, 1, NoMatch), cs)

\* str(n) for n >= 0
RECURSIVE Digits(_)
Digits(n) == IF n < 10 THEN <<Chr(48 + n)>> ELSE Digits(n \div 10) \o <<Chr(48 + (n % 10))>>

Pad2(n) == IF n < 10 THEN <<"0">> \o Digits(n) ELSE Digits(n)

\* dt.strftime('%Y-%m-%d').  %Y is the C library's: glibc writes the year
\* without leading zeros, so a year below 1000 comes out shorter than four
\* characters.
strftime(dt) == Str(Digits(dt.Y) \o <<"-">> \o Pad2(dt.m) \o <<"-">> \o Pad2(dt.d))

(***************************************************************************)
(* normalize_date                                                          *)
(***************************************************************************)
\* A value a source may put in a date field that is not a str: a date object.
DateObject == "<datetime.date>"

IsStr(v) == v \notin {None, DateObject}

\* An exception a call ends with, in the place of the value it would return.
AttributeError == "<AttributeError>"
ValueError == "<ValueError>"

IsException(v) == v \in {AttributeError, ValueError}

\* The loop over date_formats from the k-th format on.
RECURSIVE TryFormats(_, _)
RECURSIVE TryFormat(_, _, _)

TryFormats(date_str, k) ==
    IF k > Len(date_formats) THEN date_str
    ELSE TryFormat(date_str, k, strptime(Strip(Chars(date_str)), date_formats[k]))

\* A slip that lets the ValueError of strptime out of the loop.
TryFormat_uncaught(date_str, k, dt) ==
    IF dt.ok THEN strftime(dt) ELSE ValueError

\* lines 33-37 for the k-th format, dt what strptime made of it
TryFormat(date_str, k, dt) ==
    IF dt.ok THEN strftime(dt) ELSE TryFormats(date_str, k + 1)

\* lines 16-38.  What is not a str has no strip(): line 34 raises
\* AttributeError, which the except clause of line 36 does not catch.
normalize_date(date_str) ==
    IF ~Truthy(date_str) THEN None
    ELSE IF ~IsStr(date_str) THEN AttributeError
    ELSE TryFormats(date_str, 1)

(***************************************************************************)
(* Records (Python dicts)                                                  *)
(***************************************************************************)
\* record.get(field): the value, or None when the key is absent
Get(record, field) == IF field \in DOMAIN record THEN record[field] ELSE None

\* record.get(field, default)
GetOr(record, field, default) == IF field \in DOMAIN record THEN record[field] ELSE default

\* record[field] = value
Put(record, field, value) == (field :> value) @@ record

(***************************************************************************)
(* generate_client_id                                                      *)
(***************************************************************************)
\* hashlib.md5(text.encode()).hexdigest()[:12].  The digest is not computed:
\* it is a tagged copy of the text, so equal texts give equal digests and the
\* 48-bit digests of different texts are taken to differ.
md5_hex12(text) == <<"md5", text>>

\* A slip that hashes the client name as given.
generate_client_id_raw_client(firm_name, client_name) ==
    md5_hex12(normalize_firm_name(firm_name) \o ":" \o client_name)

\* lines 40-43
generate_client_id(firm_name, client_name) ==
    md5_hex12(normalize_firm_name(firm_name) \o ":" \o normalize_firm_name(client_name))

\* A slip that keys a record on its firm alone.
RecordKey_firm_only(record) ==
    generate_client_id(GetOr(record, "firm_name", ""), GetOr(record, "firm_name", ""))

\* the key merge_client_records computes for a record (line 50)
RecordKey(record) ==
    generate_client_id(GetOr(record, "firm_name", ""), GetOr(record, "client_name", ""))

(***************************************************************************)
(* validate_record                                                         *)
(***************************************************************************)
\* line 81
required == << "firm_name", "client_name" >>

\* A slip that asks for the keys and not for their values.
validate_record_present(record) == \A k \in 1..Len(required) : required[k] \in DOMAIN record

\* A slip that asks for one of the required fields only.
validate_record_any(record) == \E k \in 1..Len(required) : Truthy(Get(record, required[k]))

\* lines 79-82: all(record.get(field) for field in required)
validate_record(record) == \A k \in 1..Len(required) : Truthy(Get(record, required[k]))

(***************************************************************************)
(* merge_client_records: the body of its loop                              *)
(***************************************************************************)
\* A slip that keeps the later start.
EarliestStart_latest(existing, start1, start2) ==
    IF Truthy(start1) /\ Truthy(start2)
    THEN Put(existing, "start_date", StrMax(start1, start2))
    ELSE IF Truthy(start2) THEN Put(existing, "start_date", start2)
    ELSE existing

\* lines 60-63: the branches on the two normalised start dates
EarliestStart(existing, start1, start2) ==
    IF Truthy(start1) /\ Truthy(start2)
    THEN Put(existing, "start_date", StrMin(start1, start2))
    ELSE IF Truthy(start2) THEN Put(existing, "start_date", start2)
    ELSE existing

\* lines 58-63
ReconcileStart(existing, record) ==
    EarliestStart(existing, normalize_date(Get(existing, "start_date")),
                            normalize_date(Get(record, "start_date")))

\* lines 67-70: the branches on the two normalised end dates
LatestEnd(existing, end1, end2) ==
    IF Truthy(end1) /\ Truthy(end2)
    THEN Put(existing, "end_date", StrMax(end1, end2))
    ELSE IF Truthy(end2) THEN Put(existing, "end_date", end2)
    ELSE existing

\* lines 65-70
ReconcileEnd(existing, record) ==
    LatestEnd(existing, normalize_date(Get(existing, "end_date")),
                        normalize_date(Get(record, "end_date")))

\* A slip that takes client_country for one more identifier to fill in.
id_fields_and_country ==
    << "client_id", "client_registration_number", "firm_registration_number", "client_country" >>

\* line 73
id_fields == << "client_id", "client_registration_number", "firm_registration_number" >>

\* A slip that lets a later record's identifier replace the one held.
FillId_override(existing, record, id_field) ==
    IF Truthy(Get(record, id_field))
    THEN Put(existing, id_field, record[id_field])
    ELSE existing

\* lines 74-75, for one id_field
FillId(existing, record, id_field) ==
    IF ~Truthy(Get(existing, id_field)) /\ Truthy(Get(record, id_field))
    THEN Put(existing, id_field, record[id_field])
    ELSE existing

\* lines 73-75: the loop over the id fields from the k-th on
RECURSIVE MergeIds(_, _, _)
MergeIds(existing, record, k) ==
    IF k > Len(id_fields) THEN existing
    ELSE MergeIds(FillId(existing, record, id_fields[k]), record, k + 1)

\* A slip that lets the later record's fields replace the held ones.
MergeInto_update(existing, record) == record @@ existing

\* lines 56-75: what the else branch makes of existing
MergeInto(existing, record) ==
    MergeIds(ReconcileEnd(ReconcileStart(existing, record), record), record, 1)

\* The dict merged, in insertion order: each entry a key and the position in
\* the list of the record object it holds (merged[key] = record stores the
\* caller's object, not a copy).
KeyPos(mg, key) ==
    IF \E j \in 1..Len(mg) : mg[j].key = key
    THEN CHOOSE j \in 1..Len(mg) : mg[j].key = key
    ELSE 0

\* The exception of the first of two calls to end with one, or None.
ExceptionOf(v1, v2) ==
    IF IsException(v1) THEN v1 ELSE IF IsException(v2) THEN v2 ELSE None

\* lines 58-59
StartException(existing, record) ==
    ExceptionOf(normalize_date(Get(existing, "start_date")),
                normalize_date(Get(record, "start_date")))

\* lines 65-66
EndException(existing, record) ==
    ExceptionOf(normalize_date(Get(existing, "end_date")),
                normalize_date(Get(record, "end_date")))

\* lines 58-66: the exception the else branch ends with, or None
MergeException(existing, record) ==
    ExceptionOf(StartException(existing, record), EndException(existing, record))

\* What the else branch has made of existing when it ends with an exception:
\* lines 60-63 have run when the exception is that of lines 65-66.
MergeRaising(existing, record) ==
    IF StartException(existing, record) # None THEN existing
    ELSE ReconcileStart(existing, record)

\* lines 54-75 on the j-th entry of merged, exc what MergeException gives
MergeElse(st, n, j, exc) ==
    IF exc # None
    THEN [st EXCEPT !.exc = exc,
                    !.records[st.merged[j].ref] = MergeRaising(@, st.records[n])]
    ELSE [st EXCEPT !.records[st.merged[j].ref] = MergeInto(@, st.records[n])]

\* One turn of the loop (lines 49-75) on the n-th record of the list.
MergeUnder(st, n, key, j) ==
    IF j = 0
    THEN [st EXCEPT !.merged = Append(@, [key |-> key, ref |-> n])]
    ELSE MergeElse(st, n, j, MergeException(st.records[st.merged[j].ref], st.records[n]))

MergeKeyed(st, n, key) == MergeUnder(st, n, key, KeyPos(st.merged, key))

MergeStep(st, n) == MergeKeyed(st, n, RecordKey(st.records[n]))

\* A slip that returns the values last inserted first.
MergedValues_reversed(st) ==
    [j \in 1..Len(st.merged) |-> st.records[st.merged[Len(st.merged) + 1 - j].ref]]

\* list(merged.values())
MergedValues(st) == [j \in 1..Len(st.merged) |-> st.records[st.merged[j].ref]]

\* The whole loop, from the n-th record on, as far as it gets.
RECURSIVE MergeLoop(_, _)
MergeLoop(st, n) ==
    IF n > Len(st.records) \/ st.exc # None THEN st
    ELSE MergeLoop(MergeStep(st, n), n + 1)

\* merge_client_records(records) run on the list recs: the loop's last state
MergeRun(recs) == MergeLoop([records |-> recs, merged |-> <<>>, exc |-> None], 1)

\* merge_client_records(records) as a function of the list it is given, for
\* the lists on which it returns
merge_client_records(recs) == MergedValues(MergeRun(recs))

(***************************************************************************)
(* State                                                                   *)
(***************************************************************************)
VARIABLES
    pc,        \* the step the modelled call has reached
    records,   \* merge_client_records: its argument, a list of record objects
    merged,    \* merge_client_records: the dict merged
    cursor,    \* merge_client_records: the position of the loop in records
    result,    \* what merge_client_records returned (<<>> until it returns)
    given,     \* the records as they were when merge_client_records was called
    date_in,   \* normalize_date, parse_date: the value it is given
    date_out,  \* what normalize_date or parse_date returned, in a list (<<>> before)
    rec_in,    \* validate_record: the record it is given
    valid_out, \* what validate_record returned, in a list (<<>> before)
    name_in,   \* normalize_firm_name: the name it is given
    name_out,  \* what normalize_firm_name returned, call after call
    pair_a,    \* generate_client_id: the names of one call
    pair_b,    \* generate_client_id: the names of another call
    key_a,     \* what generate_client_id returned for pair_a (None before)
    key_b,     \* what generate_client_id returned for pair_b (None before)
    caller,    \* who called merge_client_records: "aggregate" or "none"
    scrapers,  \* aggregate: self.scrapers, each with the kind of its func
    tasks,     \* aggregate: the list tasks, each the position of its scraper
    outcomes,  \* aggregate: what each task ended with ("pending" before)
    all_results,     \* aggregate: the list all_results
    merge_calls,     \* aggregate: how often it has called merge_client_records
    merged_results,  \* aggregate: what it returns (<<>> before)
    save_results_in, \* save_results: its argument results
    save_firm,       \* save_results: its argument firm_name
    save_format,     \* save_results: its argument format
    written,         \* save_results: what it has written to the file
    filename,        \* save_results: what it returned (None before)
    url,             \* scrape_lobbyfacts: its argument url
    page,            \* scrape_lobbyfacts: the elements of the fetched document
    clients,         \* scrape_lobbyfacts: the list clients
    seen_clients,    \* scrape_lobbyfacts: the set seen_clients
    scan,            \* scrape_lobbyfacts: the position of its loops in page
    host,            \* the machine: whether xdpyinfo and Xvfb are installed, and
                     \* whether another server has the display
    managers,        \* the XvfbManager objects virtual_display has made
    processes,       \* the Xvfb processes started, each with its state
    environ_display, \* os.environ["DISPLAY"] (None when unset)
    atexit_handlers  \* the managers whose stop is registered with atexit

mergeVars == << records, merged, cursor, result, given >>

nameVars == << name_in, name_out, pair_a, pair_b, key_a, key_b >>

callVars == << date_in, date_out, rec_in, valid_out >>

aggVars == << caller, scrapers, tasks, outcomes, all_results, merge_calls, merged_results >>

saveVars == << save_results_in, save_firm, save_format, written, filename >>

scrapeVars == << url, page, clients, seen_clients, scan >>

displayVars == << host, managers, processes, environ_display, atexit_handlers >>

extVars == << saveVars, scrapeVars, displayVars >>

vars == << pc, mergeVars, nameVars, callVars, aggVars, extVars >>

\* The values of the variables of a function that is not running.
MergeIdle ==
    /\ records = <<>>
    /\ given = <<>>
    /\ merged = <<>>
    /\ cursor = 1
    /\ result = <<>>

NamesIdle ==
    /\ name_in = None
    /\ name_out = <<>>
    /\ pair_a = <<>>
    /\ pair_b = <<>>
    /\ key_a = None
    /\ key_b = None

CallsIdle ==
    /\ date_in = None
    /\ date_out = <<>>
    /\ rec_in = << >>
    /\ valid_out = <<>>

AggIdle ==
    /\ caller = "none"
    /\ scrapers = <<>>
    /\ tasks = <<>>
    /\ outcomes = <<>>
    /\ all_results = <<>>
    /\ merge_calls = 0
    /\ merged_results = <<>>

SaveIdle ==
    /\ save_results_in = <<>>
    /\ save_firm = None
    /\ save_format = None
    /\ written = <<>>
    /\ filename = None

ScrapeIdle ==
    /\ url = None
    /\ page = << >>
    /\ clients = << >>
    /\ seen_clients = {}
    /\ scan = 1

DisplayIdle ==
    /\ host = << >>
    /\ managers = << >>
    /\ processes = << >>
    /\ environ_display = None
    /\ atexit_handlers = << >>

ExtIdle == SaveIdle /\ ScrapeIdle /\ DisplayIdle

(***************************************************************************)
(* Inputs                                                                  *)
(***************************************************************************)
\* the longest list merge_client_records is given
MaxRecs == 3

\* Firm and client names as sources report them: two spellings of one
\* relationship, and a second client of the same firm.
NamePairs ==
    { << "FTI Consulting", "Acme Corp" >>,
      << "FTI CONSULTING", "ACME CORP" >>,
      << "FTI Consulting", "Beta Ltd." >> }

\* The optional fields a source may add to the two names: dates in the ISO
\* form, in another known format and in none, and identifiers present,
\* None, empty and absent.
Payloads ==
    { [start_date |-> "01/15/2023"],
      [end_date |-> "2023-12-31", client_registration_number |-> "C-99"],
      [start_date |-> "2023-06-01", end_date |-> "2023-06-30",
       client_registration_number |-> None, client_id |-> ""],
      [start_date |-> "1 Jan", end_date |-> "not a date",
       client_registration_number |-> "X123", client_id |-> "K7",
       firm_registration_number |-> "F-1", client_country |-> "CY"] }

RawRecord(names, payload) ==
    ("firm_name" :> names[1]) @@ ("client_name" :> names[2]) @@ payload

\* A record whose source left a date object in end_date.
UnformattedRecord ==
    RawRecord(<< "FTI Consulting", "Acme Corp" >>,
              [start_date |-> "2023-06-01", end_date |-> DateObject])

\* The records of the second client need no more than differ from the rest.
OtherClient(names, payload) == names[2] = "Beta Ltd." /\ "end_date" \in DOMAIN payload

RecordsNamed(names) == {RawRecord(names, pl) : pl \in {q \in Payloads : ~OtherClient(names, q)}}

RecordPool == UNION {RecordsNamed(np) : np \in NamePairs} \cup {UnformattedRecord}

ListsOf(S, n) == UNION {[1..k -> S] : k \in 0..n}

(***************************************************************************)
(* merge_client_records, step by step                                      *)
(***************************************************************************)
MergeState == [records |-> records, merged |-> merged, exc |-> None]

\* line 47, with the list the caller passes
EnterMerge(recs) ==
    /\ records = recs
    /\ given = recs
    /\ merged = <<>>
    /\ cursor = 1
    /\ result = <<>>

InitMerge ==
    /\ pc = "merge"
    /\ \E recs \in ListsOf(RecordPool, MaxRecs) : EnterMerge(recs)
    /\ NamesIdle
    /\ CallsIdle
    /\ AggIdle
    /\ ExtIdle

\* lines 49-53: the record's key is new
MergeInsert ==
    /\ pc = "merge"
    /\ cursor <= Len(records)
    /\ \E st \in {MergeStep(MergeState, cursor)} :
          /\ Len(st.merged) > Len(merged)
          /\ merged' = st.merged
    /\ cursor' = cursor + 1
    /\ UNCHANGED << pc, records, result, given, nameVars, callVars, aggVars, extVars >>

\* lines 49-50, 54-75: the record's key is in merged
MergeExisting ==
    /\ pc = "merge"
    /\ cursor <= Len(records)
    /\ \E st \in {MergeStep(MergeState, cursor)} :
          /\ Len(st.merged) = Len(merged)
          /\ st.exc = None
          /\ records' = st.records
    /\ cursor' = cursor + 1
    /\ UNCHANGED << pc, merged, result, given, nameVars, callVars, aggVars, extVars >>

\* lines 54-66: normalize_date ends with an exception, which ends the call
MergeRaise ==
    /\ pc = "merge"
    /\ cursor <= Len(records)
    /\ \E st \in {MergeStep(MergeState, cursor)} :
          /\ st.exc # None
          /\ records' = st.records
    /\ pc' = "raised"
    /\ UNCHANGED << merged, cursor, result, given, nameVars, callVars, aggVars, extVars >>

\* line 77
MergeReturn ==
    /\ pc = "merge"
    /\ cursor > Len(records)
    /\ result' = MergedValues(MergeState)
    /\ pc' = "done"
    /\ UNCHANGED << records, merged, cursor, given, nameVars, callVars, aggVars, extVars >>

NextMerge == MergeInsert \/ MergeExisting \/ MergeRaise \/ MergeReturn

SpecMerge == InitMerge /\ [][NextMerge]_vars

\* The optional fields of records whose dates are all absent, empty or
\* written in a format normalize_date knows.
DatedPayloads ==
    << << >>,
       [start_date |-> "01/15/2023"],
       [start_date |-> "2023-06-01", end_date |-> "2023-06-30"],
       [start_date |-> "", end_date |-> "31 December 2023"],
       [start_date |-> "31/12/0999", end_date |-> None] >>

\* Such records of the two spellings of one relationship and of the second
\* client, and the record with a date object.
DatedPool ==
    { RawRecord(<< "FTI Consulting", "Acme Corp" >>, DatedPayloads[k]) : k \in { 2, 3, 5 } }
      \cup { RawRecord(<< "FTI CONSULTING", "ACME CORP" >>, DatedPayloads[k]) : k \in { 1, 3, 4, 5 } }
      \cup { RawRecord(<< "FTI Consulting", "Beta Ltd." >>, DatedPayloads[2]), UnformattedRecord }

\* merge_client_records called with a list of such records
InitDated ==
    /\ pc = "merge"
    /\ \E recs \in ListsOf(DatedPool, MaxRecs) : EnterMerge(recs)
    /\ NamesIdle
    /\ CallsIdle
    /\ AggIdle
    /\ ExtIdle

SpecDated == InitDated /\ [][NextMerge]_vars

(***************************************************************************)
(* normalize_firm_name and generate_client_id, call by call                *)
(***************************************************************************)
\* the most pieces a name given to normalize_firm_name is made of
MaxTokens == 3

\* The pieces of the names: words, corporate suffixes, punctuation and space.
NameTokens == { "Acme", "a_b", " Inc", " LTD.", " plc", ",", " ", "\n" }

RECURSIVE Concat(_)
Concat(ts) == IF ts = << >> THEN "" ELSE Head(ts) \o Concat(Tail(ts))

GivenNames == { Concat(ts) : ts \in ListsOf(NameTokens, MaxTokens) } \cup { None }

\* Names as the callers of generate_client_id pass them.
KeyNames ==
    { "FTI Consulting", "F.T.I. CONSULTING", "Acme Corp", "ACME  Corp.", "Acme & Co",
      "A:A", "A", "", None }

\* Either a name to normalise, or two pairs of names to key.
InitNames ==
    /\ pc = "names"
    /\ name_out = <<>>
    /\ key_a = None
    /\ key_b = None
    /\ \/ /\ name_in \in GivenNames
          /\ pair_a = <<>>
          /\ pair_b = <<>>
       \/ /\ name_in = None
          /\ pair_a \in KeyNames \X KeyNames
          /\ pair_b \in KeyNames \X KeyNames
    /\ MergeIdle
    /\ CallsIdle
    /\ AggIdle
    /\ ExtIdle

\* normalize_firm_name(name)
NormalizeName ==
    /\ pc = "names"
    /\ pair_a = <<>>
    /\ name_out = <<>>
    /\ name_out' = << normalize_firm_name(name_in) >>
    /\ UNCHANGED << pc, name_in, pair_a, pair_b, key_a, key_b, mergeVars, callVars, aggVars, extVars >>

\* normalize_firm_name applied to what it returned
NormalizeAgain ==
    /\ pc = "names"
    /\ Len(name_out) = 1
    /\ name_out' = Append(name_out, normalize_firm_name(name_out[1]))
    /\ pc' = "returned"
    /\ UNCHANGED << name_in, pair_a, pair_b, key_a, key_b, mergeVars, callVars, aggVars, extVars >>

\* generate_client_id(firm_name, client_name) for the first pair, before or
\* after the call for the other pair
KeyFirst ==
    /\ pc = "names"
    /\ pair_a # <<>>
    /\ key_a = None
    /\ key_a' = generate_client_id(pair_a[1], pair_a[2])
    /\ pc' = IF key_b # None THEN "returned" ELSE pc
    /\ UNCHANGED << name_in, name_out, pair_a, pair_b, key_b, mergeVars, callVars, aggVars, extVars >>

KeySecond ==
    /\ pc = "names"
    /\ pair_b # <<>>
    /\ key_b = None
    /\ key_b' = generate_client_id(pair_b[1], pair_b[2])
    /\ pc' = IF key_a # None THEN "returned" ELSE pc
    /\ UNCHANGED << name_in, name_out, pair_a, pair_b, key_a, mergeVars, callVars, aggVars, extVars >>

NextNames == NormalizeName \/ NormalizeAgain \/ KeyFirst \/ KeySecond

SpecNames == InitNames /\ [][NextNames]_vars

(***************************************************************************)
(* validate_record, call by call                                           *)
(***************************************************************************)
\* A key the record does not have.
Absent == "<absent>"

\* What a source may put in a name field, or leave out.
NameValues == { Absent, None, "", " ", "FTI Consulting", " Inc", " LLC" }

WithField(record, field, value) ==
    IF value = Absent THEN record ELSE Put(record, field, value)

\* Records for validate_record: the two names as above, and other fields.
CheckedRecords ==
    { WithField(WithField(pl, "client_name", cn), "firm_name", fn) :
        fn \in NameValues, cn \in NameValues, pl \in Payloads \cup {<< >>} }

InitValidate ==
    /\ pc = "validate_record"
    /\ rec_in \in CheckedRecords
    /\ valid_out = <<>>
    /\ date_in = None
    /\ date_out = <<>>
    /\ MergeIdle
    /\ NamesIdle
    /\ AggIdle
    /\ ExtIdle

\* validate_record(record)
ValidateCall ==
    /\ pc = "validate_record"
    /\ valid_out' = << validate_record(rec_in) >>
    /\ pc' = "returned"
    /\ UNCHANGED << rec_in, date_in, date_out, mergeVars, nameVars, aggVars, extVars >>

NextValidate == ValidateCall

SpecValidate == InitValidate /\ [][NextValidate]_vars

(***************************************************************************)
(* normalize_date, call by call                                            *)
(***************************************************************************)
\* Days, months and years as sources write them.
DayTexts == { "3", "03", "13", "31" }
MonthTexts == { "4", "04", "12" }
YearTexts == { "2023", "0999" }
MonthWords == { "April", "DECEMBER", "Apr" }

\* Dates in the layouts of date_formats, the first two numbers of the
\* slashed ones in either order.
WrittenDates ==
    UNION { { y \o "-" \o m \o "-" \o d,
              d \o "/" \o m \o "/" \o y,
              m \o "/" \o d \o "/" \o y,
              d \o "/" \o d \o "/" \o y,
              d \o "-" \o m \o "-" \o y,
              y \o "/" \o m \o "/" \o d,
              y \o m \o d }
            : y \in YearTexts, m \in MonthTexts, d \in DayTexts }
      \cup { d \o " " \o w \o " " \o y : d \in DayTexts, w \in MonthWords, y \in YearTexts }
      \cup { w \o " " \o d \o ", " \o y : d \in DayTexts, w \in MonthWords, y \in YearTexts }

\* What normalize_date is given: dates as written, bare or with space around
\* them, text that is no date, nothing, and a value that is not a str.
DateInputs ==
    WrittenDates
      \cup { " 03/04/2023", "2023-04-03\n", "\t3 April 2023 ", "2023-02-29", "2024-02-29",
             "2023-04-03T00:00", "not a date", " not a date ", "  ", "", None, DateObject }

InitDates ==
    /\ pc = "normalize_date"
    /\ date_in \in DateInputs
    /\ date_out = <<>>
    /\ rec_in = << >>
    /\ valid_out = <<>>
    /\ MergeIdle
    /\ NamesIdle
    /\ AggIdle
    /\ ExtIdle

\* normalize_date(date_str) returns
NormalizeDate ==
    /\ pc = "normalize_date"
    /\ \E out \in {normalize_date(date_in)} :
          /\ ~IsException(out)
          /\ date_out' = << out >>
    /\ pc' = "returned"
    /\ UNCHANGED << date_in, rec_in, valid_out, mergeVars, nameVars, aggVars, extVars >>

\* normalize_date(date_str) ends with an exception
NormalizeDateRaise ==
    /\ pc = "normalize_date"
    /\ IsException(normalize_date(date_in))
    /\ pc' = "raised"
    /\ UNCHANGED << date_in, date_out, rec_in, valid_out, mergeVars, nameVars, aggVars, extVars >>

NextDates == NormalizeDate \/ NormalizeDateRaise

SpecDates == InitDates /\ [][NextDates]_vars

(***************************************************************************)
(* LobbyingAggregator.aggregate                                            *)
(***************************************************************************)
\* the most scrapers _load_scrapers found
NumScrapers == 2

\* asyncio.iscoroutinefunction(scraper['func']) or not
ScraperKinds == { "async", "sync" }

\* Records a scraper returns that lack a firm or a client name.
NamelessRecords ==
    { [firm_name |-> "FTI Consulting"],
      [firm_name |-> "", client_name |-> "Acme Corp"],
      [firm_name |-> "FTI Consulting", client_name |-> None, client_id |-> "K7"] }

ScenarioFirst ==
    RawRecord(<< "FTI Consulting", "Acme Corp" >>, [start_date |-> "01/15/2023"])

ScenarioSecond ==
    RawRecord(<< "FTI CONSULTING", "ACME CORP" >>,
              [end_date |-> "2023-12-31", client_registration_number |-> "C-99"])

\* What a scraper returns when it returns a list.
ScraperLists ==
    { << >>,
      << ScenarioFirst >>,
      << ScenarioSecond, [firm_name |-> "FTI Consulting"] >>,
      << [firm_name |-> "", client_name |-> "Acme Corp"], ScenarioFirst >>,
      << [firm_name |-> "FTI Consulting", client_name |-> None, client_id |-> "K7"] >>,
      << UnformattedRecord >> }

Pending == [kind |-> "pending", value |-> << >>]

\* What gather(return_exceptions=True) reports for a task: the list its
\* scraper returned, None, the Exception it raised, or what it raised that
\* is a BaseException and no Exception (asyncio.CancelledError of a
\* cancelled task, SystemExit of a scraper run in the executor).
TaskResults ==
    { [kind |-> "list", value |-> l] : l \in ScraperLists }
        \cup { [kind |-> "none", value |-> << >>],
               [kind |-> "exception", value |-> << >>],
               [kind |-> "base_exception", value |-> << >>] }

InitAgg ==
    /\ pc = "schedule"
    /\ caller = "aggregate"
    /\ scrapers \in ListsOf(ScraperKinds, NumScrapers)
    /\ tasks = <<>>
    /\ outcomes = <<>>
    /\ all_results = <<>>
    /\ merge_calls = 0
    /\ merged_results = <<>>
    /\ MergeIdle
    /\ NamesIdle
    /\ CallsIdle
    /\ ExtIdle

\* The positions 1..n in order, without those in skipped.
RECURSIVE Scheduled(_, _)
Scheduled(n, skipped) ==
    IF n = 0 THEN << >>
    ELSE IF n \in skipped THEN Scheduled(n - 1, skipped)
    ELSE Append(Scheduled(n - 1, skipped), n)

\* lines 52-65: a task for every scraper, but for those whose scheduling
\* raised (line 64 logs it and the loop goes on)
AggSchedule ==
    /\ pc = "schedule"
    /\ \E raised \in SUBSET (1..Len(scrapers)) :
          /\ tasks' = Scheduled(Len(scrapers), raised)
          /\ outcomes' = [t \in 1..Len(tasks') |-> Pending]
          /\ pc' = IF tasks' = << >> THEN "validate" ELSE "gather"
    /\ UNCHANGED << caller, scrapers, all_results, merge_calls, merged_results, mergeVars, nameVars, callVars, extVars >>

\* line 69, while gather waits: a task ends, in any order, with a result
TaskFinish(t) ==
    /\ pc = "gather"
    /\ outcomes[t] = Pending
    /\ \E res \in TaskResults : outcomes' = [outcomes EXCEPT ![t] = res]
    /\ UNCHANGED << pc, caller, scrapers, tasks, all_results, merge_calls, merged_results,
                    mergeVars, nameVars, callVars, extVars >>

\* lines 71-74 for one result: extend all_results with a non-empty list
Extended(all, res) ==
    IF res.kind = "exception" THEN all
    ELSE IF res.kind = "list" /\ res.value # << >> THEN all \o res.value
    ELSE all

\* lines 71-74 for one result: isinstance(result, Exception) is False of a
\* BaseException that is no Exception and the object is true, so line 74
\* runs all_results.extend(result), which raises TypeError
ExtendRaises(res) == res.kind = "base_exception"

\* lines 70-75: the loop over zip(self.scrapers, results), from the n-th pair
\* to the end or to the pair whose line 74 raises
RECURSIVE Collected(_, _)
Collected(all, n) ==
    IF n > Len(scrapers) \/ n > Len(outcomes) THEN all
    ELSE IF ExtendRaises(outcomes[n]) THEN all
    ELSE Collected(Extended(all, outcomes[n]), n + 1)

\* Some turn of the loop of lines 70-75 raises.
CollectRaises == \E n \in 1..Len(outcomes) : n <= Len(scrapers) /\ ExtendRaises(outcomes[n])

\* lines 69-75: gather returns when every task has ended
AggCollect ==
    /\ pc = "gather"
    /\ \A t \in 1..Len(outcomes) : outcomes[t] # Pending
    /\ ~CollectRaises
    /\ all_results' = Collected(all_results, 1)
    /\ pc' = "validate"
    /\ UNCHANGED << caller, scrapers, tasks, outcomes, merge_calls, merged_results,
                    mergeVars, nameVars, callVars, extVars >>

\* lines 69-74: gather returns and the TypeError of line 74 ends aggregate
AggCollectRaise ==
    /\ pc = "gather"
    /\ \A t \in 1..Len(outcomes) : outcomes[t] # Pending
    /\ CollectRaises
    /\ all_results' = Collected(all_results, 1)
    /\ pc' = "raised"
    /\ UNCHANGED << caller, scrapers, tasks, outcomes, merge_calls, merged_results,
                    mergeVars, nameVars, callVars, extVars >>

\* line 78
valid_results == SelectSeq(all_results, validate_record)

\* lines 78-79: the valid records are passed to merge_client_records
AggMerge ==
    /\ pc = "validate"
    /\ records' = valid_results
    /\ given' = valid_results
    /\ merged' = <<>>
    /\ cursor' = 1
    /\ result' = <<>>
    /\ merge_calls' = merge_calls + 1
    /\ pc' = "merge"
    /\ UNCHANGED << caller, scrapers, tasks, outcomes, all_results, merged_results,
                    nameVars, callVars, extVars >>

\* lines 79-82: merge_client_records has returned
AggReturn ==
    /\ pc = "done"
    /\ caller = "aggregate"
    /\ merged_results' = result
    /\ pc' = "returned"
    /\ UNCHANGED << caller, scrapers, tasks, outcomes, all_results, merge_calls,
                    mergeVars, nameVars, callVars, extVars >>

NextAgg ==
    \/ AggSchedule
    \/ \E t \in 1..Len(outcomes) : TaskFinish(t)
    \/ AggCollect
    \/ AggCollectRaise
    \/ AggMerge
    \/ MergeInsert
    \/ MergeExisting
    \/ MergeRaise
    \/ MergeReturn
    \/ AggReturn

SpecAgg == InitAgg /\ [][NextAgg]_vars

(***************************************************************************)
(* save_results                                                            *)
(***************************************************************************)
\* the longest list of records save_results is given the merge of
MaxSaved == 2

\* str.replace(old, new) for single characters
Replace(cs, old, new) == [n \in 1..Len(cs) |-> IF cs[n] = old THEN new ELSE cs[n]]

\* line 87
safe_firm_name(firm_name) == Str(Replace(Replace(Chars(firm_name), " ", "_"), "/", "_"))

\* lines 90 and 100 without the directory; the time of the call is not modelled
FileName(firm_name, extension) == << safe_firm_name(firm_name), extension >>

\* str() of the date object of DateObject
DateText == "2023-06-30"

\* line 93: list(results[0].keys()), as the set of the keys
fieldnames(results) == DOMAIN results[1]

\* csv.DictWriter._dict_to_list with extrasaction='raise', the default: the
\* keys of the row that are no field names
wrong_fields(rowdict, fields) == DOMAIN rowdict \ fields

\* the csv writer: None is written as the empty text, any other value as str() of it
CellText(v) == IF v = None THEN "" ELSE IF v = DateObject THEN DateText ELSE v

\* csv.DictWriter._dict_to_list: rowdict.get(key, self.restval) for each field
\* name, restval being ''
CsvRow(rowdict, fields) == [k \in fields |-> CellText(GetOr(rowdict, k, ""))]

\* csv.DictWriter.writeheader
CsvHeader(fields) == [k \in fields |-> k]

\* line 96: writerows writes row after row and stops at the first row that
\* has a key outside the field names
RECURSIVE CsvRows(_, _, _)
CsvRows(results, fields, n) ==
    IF n > Len(results) \/ wrong_fields(results[n], fields) # {} THEN << >>
    ELSE << CsvRow(results[n], fields) >> \o CsvRows(results, fields, n + 1)

\* line 96 raises ValueError
CsvRaises(results) ==
    \E n \in 1..Len(results) : wrong_fields(results[n], fieldnames(results)) # {}

\* lines 92-96: what the file holds when the with block is left
CsvFile(results) ==
    IF results = << >> THEN << >>
    ELSE << CsvHeader(fieldnames(results)) >> \o CsvRows(results, fieldnames(results), 1)

\* json.dump with default=str: None becomes null, a text a string, and the
\* date object the string of its str()
JsonValue(v) ==
    IF v = None THEN [kind |-> "null", text |-> ""]
    ELSE [kind |-> "string", text |-> IF v = DateObject THEN DateText ELSE v]

\* line 102: a list of objects, each with the keys of its record
JsonFile(results) ==
    [n \in 1..Len(results) |-> [k \in DOMAIN results[n] |-> JsonValue(results[n][k])]]

\* The values of format: the two the function knows and one it does not.
Formats == { "csv", "json", "xlsx" }

\* The firm names save_results is called with.
SavedFirms == { "FTI Consulting", "A/B Group" }

\* What aggregate returns to run_aggregator: the merge of valid records.
SavedResults ==
    { merge_client_records(recs) :
        recs \in { l \in ListsOf({r \in RecordPool : validate_record(r)}, MaxSaved) :
                      MergeRun(l).exc = None } }

InitSave ==
    /\ pc = "save_results"
    /\ save_results_in \in SavedResults
    /\ save_firm \in SavedFirms
    /\ save_format \in Formats
    /\ written = << >>
    /\ filename = None
    /\ MergeIdle
    /\ NamesIdle
    /\ CallsIdle
    /\ AggIdle
    /\ ScrapeIdle
    /\ DisplayIdle

\* lines 89-97 and 105: the CSV file is written and its name returned
SaveCsv ==
    /\ pc = "save_results"
    /\ save_format = "csv"
    /\ ~CsvRaises(save_results_in)
    /\ written' = CsvFile(save_results_in)
    /\ filename' = FileName(save_firm, ".csv")
    /\ pc' = "returned"
    /\ UNCHANGED << save_results_in, save_firm, save_format, mergeVars, nameVars, callVars, aggVars, scrapeVars, displayVars >>

\* lines 89-96: writerows raises ValueError, with the header and the rows
\* before the offending one written
SaveCsvRaise ==
    /\ pc = "save_results"
    /\ save_format = "csv"
    /\ CsvRaises(save_results_in)
    /\ written' = CsvFile(save_results_in)
    /\ pc' = "raised"
    /\ UNCHANGED << save_results_in, save_firm, save_format, filename, mergeVars, nameVars, callVars, aggVars, scrapeVars, displayVars >>

\* lines 99-103 and 105: the JSON file is written and its name returned
SaveJson ==
    /\ pc = "save_results"
    /\ save_format = "json"
    /\ written' = JsonFile(save_results_in)
    /\ filename' = FileName(save_firm, ".json")
    /\ pc' = "returned"
    /\ UNCHANGED << save_results_in, save_firm, save_format, mergeVars, nameVars, callVars, aggVars, scrapeVars, displayVars >>

\* lines 89, 99 and 105: neither branch binds filename, and the return
\* raises UnboundLocalError
SaveUnknownFormat ==
    /\ pc = "save_results"
    /\ save_format \notin { "csv", "json" }
    /\ pc' = "raised"
    /\ UNCHANGED << saveVars, mergeVars, nameVars, callVars, aggVars, scrapeVars, displayVars >>

NextSave == SaveCsv \/ SaveCsvRaise \/ SaveJson \/ SaveUnknownFormat

SpecSave == InitSave /\ [][NextSave]_vars

(***************************************************************************)
(* scrapers/lobbyfacts.py                                                  *)
(***************************************************************************)
\* lines 14-21
FILTER_TERMS ==
    { "search", "about", "disclaimer", "cabinet", "member", "how to",
      "latest stories", "info", "people", "employment", "transparency",
      "register", "login", "contact", "privacy", "terms", "cookies",
      "home", "menu", "navigation", "footer", "header",
      "categories", "affiliation", "financial data", "eu structures",
      "meetings", "platforms" }

\* sub in cs, for sequences of characters
Contains(cs, sub) ==
    \E n \in 1..(Len(cs) - Len(sub) + 1) : SubSeq(cs, n, n + Len(sub) - 1) = sub

\* c.isalpha() of an ASCII character
IsAlphaChar(c) == IsLowerChar(c) \/ IsUpperChar(c)

\* line 121
has_letters(name) == \E n \in 1..Len(name) : IsAlphaChar(SubSeq(name, n, n))

\* the terms of FILTER_TERMS as sequences of characters
FilterTermChars == { Chars(term) : term \in FILTER_TERMS }

\* line 113, given name_lower
HasFilterTerm(name_lower) == \E term \in FilterTermChars : Contains(name_lower, term)

is_valid_client_unfiltered(name) ==
    name # "" /\ Len(name) >= 3 /\ has_letters(name) /\ 5 < Len(name) /\ Len(name) < 200

\* lines 106-124
is_valid_client(name) ==
    IF name = "" \/ Len(name) < 3 THEN FALSE
    ELSE IF HasFilterTerm(LowerSeq(Chars(name))) THEN FALSE
    ELSE has_letters(name) /\ 5 < Len(name) /\ Len(name) < 200

\* \s*\([^)]*\)\s*$ matched starting at position n of cs
ParenthesesMatchAt(cs, n) ==
    \E open \in n..Len(cs) : \E close \in (open + 1)..Len(cs) :
        /\ \A k \in n..(open - 1) : IsSpaceChar(cs[k])
        /\ cs[open] = "("
        /\ cs[close] = ")"
        /\ \A k \in (open + 1)..(close - 1) : cs[k] # ")"
        /\ \A k \in (close + 1)..Len(cs) : IsSpaceChar(cs[k])

\* line 103: re.sub(r'\s*\([^)]*\)\s*$', '', text)
RemoveParentheses(cs) == CutAtFirst(cs, { n \in 1..Len(cs) : ParenthesesMatchAt(cs, n) })

\* lines 98-104: ' '.join(text.split()), the re.sub of line 103, strip()
clean_client_name(text) == Str(Strip(RemoveParentheses(Strip(CollapseSpace(Chars(text))))))

\* lines 126-135
create_client_record(firm_name, firm_id, client_name) ==
    [firm_name |-> firm_name, firm_id |-> firm_id, client_name |-> client_name,
     client_id |-> None, start_date |-> None, end_date |-> None]

\* the most elements a fetched document has
MaxElements == 3

\* rid=([^&]+) matched starting at position n of cs
RidMatchAt(cs, n) ==
    n + 4 <= Len(cs) /\ SubSeq(cs, n, n + 3) = Chars("rid=") /\ cs[n + 4] # "&"

\* [^&]+ from position n of cs
RECURSIVE RidGroup(_, _)
RidGroup(cs, n) ==
    IF n > Len(cs) \/ cs[n] = "&" THEN << >> ELSE << cs[n] >> \o RidGroup(cs, n + 1)

\* lines 53-54, given the characters of url
firm_id(cs) ==
    IF \A n \in 1..Len(cs) : ~RidMatchAt(cs, n) THEN None
    ELSE Str(RidGroup(cs, 4 + CHOOSE n \in 1..Len(cs) :
                             RidMatchAt(cs, n) /\ \A k \in 1..(n - 1) : ~RidMatchAt(cs, k)))

HeadingTags == { "h2", "h3", "h4" }

ListTags == { "ul", "ol" }

\* line 61: re.compile(r'Clients.*financial year', re.I) found in the text of
\* a heading
IsClientHeader(element) ==
    /\ element.tag \in HeadingTags
    /\ \E n \in 1..(Len(element.text) - 6) :
          /\ LowerSeq(Chars(SubSeq(element.text, n, n + 6))) = Chars("clients")
          /\ \E k \in (n + 7)..(Len(element.text) - 13) :
                /\ LowerSeq(Chars(SubSeq(element.text, k, k + 13))) = Chars("financial year")
                /\ \A m \in (n + 7)..(k - 1) : SubSeq(element.text, m, m) # "\n"

\* lines 65-73: the lists among the siblings from position n on, up to the
\* next heading
RECURSIVE SiblingLists(_, _)
SiblingLists(elements, n) ==
    IF n > Len(elements) \/ elements[n].tag \in HeadingTags THEN << >>
    ELSE (IF elements[n].tag \in ListTags THEN << n >> ELSE << >>)
             \o SiblingLists(elements, n + 1)

\* lines 60-73: the lists strategy 1 goes through, in its order
RECURSIVE SectionLists(_, _)
SectionLists(elements, n) ==
    IF n > Len(elements) THEN << >>
    ELSE (IF IsClientHeader(elements[n]) THEN SiblingLists(elements, n + 1) ELSE << >>)
             \o SectionLists(elements, n + 1)

\* lines 83-85
valid_samples(items) ==
    Cardinality({ n \in 1..Len(items) : n <= 5 /\ is_valid_client(items[n]) })

\* lines 76-88: the lists strategy 2 goes through, in its order
RECURSIVE LargeLists(_, _)
LargeLists(elements, n) ==
    IF n > Len(elements) THEN << >>
    ELSE (IF /\ elements[n].tag \in ListTags
             /\ Len(elements[n].items) >= 5
             /\ valid_samples(elements[n].items) >= 3
          THEN << n >> ELSE << >>) \o LargeLists(elements, n + 1)

AddClient_unseen(found, client_name, firm_name, id) ==
    IF is_valid_client(client_name)
    THEN [seen |-> found.seen \cup { client_name },
          clients |-> Append(found.clients, create_client_record(firm_name, id, client_name))]
    ELSE found

\* lines 70-72 and 91-93 for one cleaned name, on the pair of clients and
\* seen_clients
AddClient(found, client_name, firm_name, id) ==
    IF is_valid_client(client_name) /\ client_name \notin found.seen
    THEN [seen |-> found.seen \cup { client_name },
          clients |-> Append(found.clients, create_client_record(firm_name, id, client_name))]
    ELSE found

\* lines 68-72 and 89-93: the loop over the items of one list, from the n-th on
RECURSIVE AddItems(_, _, _, _, _)
AddItems(found, items, n, firm_name, id) ==
    IF n > Len(items) THEN found
    ELSE AddItems(AddClient(found, clean_client_name(items[n]), firm_name, id),
                  items, n + 1, firm_name, id)

\* The firm scrape_lobbyfacts is asked for.
ScrapedFirm == "Test Firm"

\* The values of url: none, with a rid, with a rid and more, and without one.
Urls ==
    { None, "https://www.lobbyfacts.eu/datacard/test-firm?rid=123",
      "https://www.lobbyfacts.eu/datacard/test-firm?sid=7&rid=9a&y=1",
      "https://www.lobbyfacts.eu/datacard/test-firm" }

Heading(tag, text) == [tag |-> tag, text |-> text, items |-> << >>]

ItemList(tag, items) == [tag |-> tag, text |-> "", items |-> items]

\* The elements of a document, one after the other: headings of client
\* sections and of others, a short list of clients and page links, a long
\* list naming clients twice and with additions in parentheses, the long
\* list of links of a menu, and a list of names and of texts that are none.
Elements ==
    { Heading("h3", "Clients for the last closed financial year"),
      Heading("h4", "CLIENTS (current Financial Year)"),
      Heading("h2", "Financial data"),
      ItemList("ul", << "Valid Client Inc", "Categories", "Search", "Another Valid Corp" >>),
      ItemList("ol", << "Another Valid Corp", "Valid Client Inc (EU)", "Acme\n Holdings",
                        "Shell", "Acme Holdings (since 2020)", "Gamma Works (a) (b)" >>),
      ItemList("ul", << "Home", "About us", "Valid Client Inc", "Contact", "Login" >>),
      ItemList("ul", << "Valid Company Inc", "123", "A", "About",
                        "Another Corporation Ltd" >>) }

Pages == ListsOf(Elements, MaxElements)

InitScrape ==
    /\ pc = "scrape_lobbyfacts"
    /\ url \in Urls
    /\ page \in Pages
    /\ clients = << >>
    /\ seen_clients = {}
    /\ scan = 1
    /\ MergeIdle
    /\ NamesIdle
    /\ CallsIdle
    /\ AggIdle
    /\ SaveIdle
    /\ DisplayIdle

\* lines 34-36: without a url the function returns the empty list
ScrapeWithoutUrl ==
    /\ pc = "scrape_lobbyfacts"
    /\ ~Truthy(url)
    /\ pc' = "returned"
    /\ UNCHANGED << scrapeVars, mergeVars, nameVars, callVars, aggVars, saveVars, displayVars >>

\* lines 43-48: the request fails and the function returns the empty list
ScrapeRequestFailed ==
    /\ pc = "scrape_lobbyfacts"
    /\ Truthy(url)
    /\ pc' = "returned"
    /\ UNCHANGED << scrapeVars, mergeVars, nameVars, callVars, aggVars, saveVars, displayVars >>

\* lines 43-61: the document is fetched and parsed
ScrapeFetched ==
    /\ pc = "scrape_lobbyfacts"
    /\ Truthy(url)
    /\ pc' = "strategy 1"
    /\ UNCHANGED << scrapeVars, mergeVars, nameVars, callVars, aggVars, saveVars, displayVars >>

Found == [seen |-> seen_clients, clients |-> clients]

\* The n-th list of a strategy is gone through.
ScanList(lists) ==
    /\ scan <= Len(lists)
    /\ \E found \in { AddItems(Found, page[lists[scan]].items, 1, ScrapedFirm,
                               firm_id(Chars(url))) } :
          /\ clients' = found.clients
          /\ seen_clients' = found.seen
    /\ scan' = scan + 1
    /\ UNCHANGED << pc, url, page, mergeVars, nameVars, callVars, aggVars, saveVars, displayVars >>

\* lines 63-73: the next list of a client section
ScanSectionList ==
    /\ pc = "strategy 1"
    /\ ScanList(SectionLists(page, 1))

\* lines 63 and 76: strategy 1 is through
ScanSectionsDone ==
    /\ pc = "strategy 1"
    /\ scan > Len(SectionLists(page, 1))
    /\ pc' = "strategy 2"
    /\ scan' = 1
    /\ UNCHANGED << url, page, clients, seen_clients, mergeVars, nameVars, callVars, aggVars, saveVars, displayVars >>

\* lines 77-93: the next long list of which most samples look like clients
ScanLargeList ==
    /\ pc = "strategy 2"
    /\ ScanList(LargeLists(page, 1))

\* lines 77 and 95-96: strategy 2 is through and clients is returned
ScrapeReturn ==
    /\ pc = "strategy 2"
    /\ scan > Len(LargeLists(page, 1))
    /\ pc' = "returned"
    /\ UNCHANGED << scrapeVars, mergeVars, nameVars, callVars, aggVars, saveVars, displayVars >>

NextScrape ==
    \/ ScrapeWithoutUrl
    \/ ScrapeRequestFailed
    \/ ScrapeFetched
    \/ ScanSectionList
    \/ ScanSectionsDone
    \/ ScanLargeList
    \/ ScrapeReturn

SpecScrape == InitScrape /\ [][NextScrape]_vars

(***************************************************************************)
(* scrapers/fara.py: parse_date                                            *)
(***************************************************************************)
\* lines 202-209
fara_date_formats ==
    << << "%m", "/", "%d", "/", "%Y" >>,
       << "%Y", "-", "%m", "-", "%d" >>,
       << "%B", " ", "%d", ",", " ", "%Y" >>,
       << "%b", " ", "%d", ",", " ", "%Y" >>,
       << "%m", "-", "%d", "-", "%Y" >>,
       << "%d", "-", "%b", "-", "%Y" >> >>

\* line 219: re.match(r'\d{1,2}[-/]\d{1,2}[-/]\d{2,4}', date_str), at the
\* start of the text as it was given
LooksLikeDate(cs) ==
    \E a \in 1..2 : \E b \in 1..2 :
        /\ \A k \in 1..a : DigitAt(cs, k)
        /\ a + 1 <= Len(cs) /\ cs[a + 1] \in { "-", "/" }
        /\ \A k \in 1..b : DigitAt(cs, a + 1 + k)
        /\ a + b + 2 <= Len(cs) /\ cs[a + b + 2] \in { "-", "/" }
        /\ DigitAt(cs, a + b + 3) /\ DigitAt(cs, a + b + 4)

RECURSIVE ParseFormats(_, _)
RECURSIVE ParseFormat(_, _, _)

\* lines 211-222 from the k-th format on
ParseFormats(date_str, k) ==
    IF k > Len(fara_date_formats)
    THEN (IF LooksLikeDate(Chars(date_str)) THEN date_str ELSE None)
    ELSE ParseFormat(date_str, k, strptime(Strip(Chars(date_str)), fara_date_formats[k]))

\* lines 212-216 for the k-th format, dt what strptime made of it
ParseFormat(date_str, k, dt) ==
    IF dt.ok THEN strftime(dt) ELSE ParseFormats(date_str, k + 1)

\* lines 197-222
parse_date(date_str) == IF ~Truthy(date_str) THEN None ELSE ParseFormats(date_str, 1)

FaraMonthWords == { "January", "Jan", "APR", "Sept" }

\* What parse_date is given: dates as FARA pages write them, texts that are
\* no dates and look like dates or do not, the empty text and None.
FaraInputs ==
    UNION { { m \o "/" \o d \o "/" \o y,
              y \o "-" \o m \o "-" \o d,
              m \o "-" \o d \o "-" \o y,
              d \o "/" \o d \o "/" \o y }
            : y \in YearTexts, m \in MonthTexts, d \in DayTexts }
      \cup { w \o " " \o d \o ", " \o y : d \in DayTexts, w \in FaraMonthWords, y \in YearTexts }
      \cup { d \o "-" \o w \o "-" \o y : d \in DayTexts, w \in FaraMonthWords, y \in YearTexts }
      \cup { "01/15/2023", "2023-01-15", "January 15, 2023", "15-Jan-2023", " 01-15-2023\n",
             "invalid", "13/45/2023", " 13/45/2023", "1/2/23", "02/30/2023", "12/2023",
             "2023-01-15T10:00", "  ", "", None }

InitFara ==
    /\ pc = "parse_date"
    /\ date_in \in FaraInputs
    /\ date_out = <<>>
    /\ rec_in = << >>
    /\ valid_out = <<>>
    /\ MergeIdle
    /\ NamesIdle
    /\ AggIdle
    /\ ExtIdle

\* parse_date(date_str) returns
ParseDate ==
    /\ pc = "parse_date"
    /\ date_out' = << parse_date(date_in) >>
    /\ pc' = "returned"
    /\ UNCHANGED << date_in, rec_in, valid_out, mergeVars, nameVars, aggVars, extVars >>

NextFara == ParseDate

SpecFara == InitFara /\ [][NextFara]_vars

(***************************************************************************)
(* utils/browser.py: XvfbManager and virtual_display                       *)
(***************************************************************************)
\* The most virtual_display contexts the program opens.
MaxManagers == 2

\* XvfbManager.__init__ with its default display_num: self.display
display == ":99"

\* XvfbManager.__init__: a manager holds no process.  at is the position of the
\* virtual_display context that made it, stop_calls counts the calls of stop.
XvfbManager == [xvfb_process |-> None, at |-> "start", stop_calls |-> 0]

\* The Popen object of the n-th process started, and the process of an object.
Popen(n) == "Xvfb " \o ToString(n)

Pid(ps, process) == CHOOSE n \in 1..Len(ps) : Popen(n) = process

\* Something answers on the display: another server, or an Xvfb that runs.
DisplayServed(ps) ==
    host.display_in_use \/ \E n \in 1..Len(ps) : ps[n] = "running"

\* The outcomes of subprocess.run(["xdpyinfo", ...], timeout=1) of start.
xdpyinfo ==
    IF ~host.xdpyinfo
    THEN { "FileNotFoundError" }
    ELSE { "TimeoutExpired",
           IF DisplayServed(processes) THEN "returncode 0" ELSE "returncode 1" }

\* terminate(), then wait(timeout=5) and kill() when it times out: a process
\* that runs ends on the first signal or is killed, one that has ended stays
\* as it is.
Terminate(state, timed_out) ==
    IF state # "running" THEN state
    ELSE IF timed_out THEN "killed" ELSE "terminated"

\* XvfbManager.stop of the n-th manager that forgets to reset xvfb_process.
stop_keeps_process(ms, ps, n, timed_out) ==
    IF ms[n].xvfb_process # None
    THEN [ managers |-> [ms EXCEPT ![n].stop_calls = @ + 1],
           processes |->
               [ps EXCEPT ![Pid(ps, ms[n].xvfb_process)] = Terminate(@, timed_out)] ]
    ELSE [ managers |-> [ms EXCEPT ![n].stop_calls = @ + 1], processes |-> ps ]

\* XvfbManager.stop of the n-th manager.
stop(ms, ps, n, timed_out) ==
    IF ms[n].xvfb_process # None                                      \* line 52
    THEN [ managers |-> [ms EXCEPT ![n].xvfb_process = None,          \* line 58
                                   ![n].stop_calls = @ + 1],
           processes |->
               [ps EXCEPT ![Pid(ps, ms[n].xvfb_process)] = Terminate(@, timed_out)] ]
    ELSE [ managers |-> [ms EXCEPT ![n].stop_calls = @ + 1], processes |-> ps ]

\* XvfbManager.start of the n-th manager, given what xdpyinfo did and whether
\* the sleep of line 45 is interrupted: the state it leaves and what it raised.
start(ms, ps, n, probe, interrupted) ==
    IF probe = "returncode 0"                                         \* line 27
    THEN [ managers |-> ms, processes |-> ps, environ |-> environ_display,
           atexit |-> atexit_handlers, raised |-> None ]
    ELSE IF ~host.Xvfb                                                \* line 35
    THEN [ managers |-> ms, processes |-> ps, environ |-> environ_display,
           atexit |-> atexit_handlers, raised |-> "FileNotFoundError" ]
    ELSE [ managers |-> [ms EXCEPT ![n].xvfb_process = Popen(Len(ps) + 1)],
           processes |->
               Append(ps, IF DisplayServed(ps) THEN "failed" ELSE "running"),
           environ |-> display,                                       \* line 42
           atexit |-> IF interrupted THEN atexit_handlers
                      ELSE Append(atexit_handlers, n),                \* line 48
           raised |-> IF interrupted THEN "KeyboardInterrupt" ELSE None ]

\* The contexts opened after the n-th have all been left.
Innermost(n) == \A k \in (n + 1)..Len(managers) : managers[k].at # "body"

Hosts == [xdpyinfo : BOOLEAN, Xvfb : BOOLEAN, display_in_use : BOOLEAN]

InitDisplay ==
    /\ pc = "virtual_display"
    /\ host \in Hosts
    /\ managers = << >>
    /\ processes = << >>
    /\ environ_display \in { None, ":0" }
    /\ atexit_handlers = << >>
    /\ MergeIdle
    /\ NamesIdle
    /\ CallsIdle
    /\ AggIdle
    /\ SaveIdle
    /\ ScrapeIdle

\* with virtual_display(): the manager is made, start returns and the body is
\* entered
EnterDisplay ==
    /\ pc = "virtual_display"
    /\ Len(managers) < MaxManagers
    /\ \E probe \in xdpyinfo :
        LET n == Len(managers) + 1
            started == start(Append(managers, XvfbManager), processes, n, probe, FALSE)
        IN  /\ started.raised = None
            /\ managers' = [started.managers EXCEPT ![n].at = "body"]
            /\ processes' = started.processes
            /\ environ_display' = started.environ
            /\ atexit_handlers' = started.atexit
    /\ UNCHANGED << pc, host, mergeVars, nameVars, callVars, aggVars, saveVars, scrapeVars >>

\* with virtual_display(): start raises, the finally clause calls stop and the
\* exception leaves the context
EnterDisplayRaises ==
    /\ pc = "virtual_display"
    /\ Len(managers) < MaxManagers
    /\ \E probe \in xdpyinfo, interrupted \in BOOLEAN, timed_out \in BOOLEAN :
        LET n == Len(managers) + 1
            started == start(Append(managers, XvfbManager), processes, n, probe, interrupted)
            stopped == stop(started.managers, started.processes, n, timed_out)
        IN  /\ started.raised # None
            /\ managers' = [stopped.managers EXCEPT ![n].at = "start raised"]
            /\ processes' = stopped.processes
            /\ environ_display' = started.environ
            /\ atexit_handlers' = started.atexit
    /\ UNCHANGED << pc, host, mergeVars, nameVars, callVars, aggVars, saveVars, scrapeVars >>

\* The body of the innermost open context ends, by returning or by raising,
\* and the finally clause calls stop.
LeaveDisplay(n, timed_out, position) ==
    /\ pc = "virtual_display"
    /\ managers[n].at = "body"
    /\ Innermost(n)
    /\ LET stopped == stop(managers, processes, n, timed_out)
       IN  /\ managers' = [stopped.managers EXCEPT ![n].at = position]
           /\ processes' = stopped.processes
    /\ UNCHANGED << pc, host, environ_display, atexit_handlers,
                    mergeVars, nameVars, callVars, aggVars, saveVars, scrapeVars >>

\* the body returns
DisplayBodyReturns ==
    \E n \in 1..Len(managers), timed_out \in BOOLEAN :
        LeaveDisplay(n, timed_out, "returned")

\* the body raises
DisplayBodyRaises ==
    \E n \in 1..Len(managers), timed_out \in BOOLEAN :
        LeaveDisplay(n, timed_out, "body raised")

\* The program ends with every context left: the interpreter turns to the
\* functions registered with atexit.
InterpreterExits ==
    /\ pc = "virtual_display"
    /\ \A n \in 1..Len(managers) : managers[n].at # "body"
    /\ pc' = "atexit"
    /\ UNCHANGED << displayVars, mergeVars, nameVars, callVars, aggVars, saveVars, scrapeVars >>

\* atexit calls the stop registered last
AtExitStop ==
    /\ pc = "atexit"
    /\ atexit_handlers # << >>
    /\ \E timed_out \in BOOLEAN :
        LET stopped == stop(managers, processes,
                            atexit_handlers[Len(atexit_handlers)], timed_out)
        IN  /\ managers' = stopped.managers
            /\ processes' = stopped.processes
    /\ atexit_handlers' = SubSeq(atexit_handlers, 1, Len(atexit_handlers) - 1)
    /\ UNCHANGED << pc, host, environ_display,
                    mergeVars, nameVars, callVars, aggVars, saveVars, scrapeVars >>

NextDisplay ==
    \/ EnterDisplay
    \/ EnterDisplayRaises
    \/ DisplayBodyReturns
    \/ DisplayBodyRaises
    \/ InterpreterExits
    \/ AtExitStop

SpecDisplay == InitDisplay /\ [][NextDisplay]_vars

(***************************************************************************)
(* Properties of merge_client_records                                      *)
(***************************************************************************)
\* The normalised firm and client name of each pair of names a source reports.
NormalisedNames ==
    [np \in NamePairs |-> << normalize_firm_name(np[1]), normalize_firm_name(np[2]) >>]

\* Two records are reports of one relationship: their firm names and their
\* client names agree once normalised.
SameIdentity(r1, r2) ==
    NormalisedNames[<< r1["firm_name"], r1["client_name"] >>]
        = NormalisedNames[<< r2["firm_name"], r2["client_name"] >>]

\* The canonical collection as it stands: the values of merged.
Canonical == MergedValues(MergeState)

\* The record the step about to be taken reads, when there is one.
AtRecord == pc = "merge" /\ cursor <= Len(records)

\* The step about to be taken merges records[cursor] into the n-th entry.
MergesInto(n) == AtRecord /\ merged[n].key = RecordKey(records[cursor])

\* s is a date in the form YYYY-MM-DD.
IsIsoDate(s) == s # None /\ Len(s) = 10 /\ strptime(Chars(s), date_formats[1]).ok

\* The day an ISO date names, as a number that grows with time.
DayNumber(s) == ToInt(SubSeq(Chars(s), 1, 4)) * 10000
                  + ToInt(SubSeq(Chars(s), 6, 7)) * 100 + ToInt(SubSeq(Chars(s), 9, 10))

EarlierOf(a, b) == IF DayNumber(b) < DayNumber(a) THEN b ELSE a
LaterOf(a, b) == IF DayNumber(b) > DayNumber(a) THEN b ELSE a

\* What a permutation p of the positions makes of a list.
Permuted(recs, p) == [n \in 1..Len(recs) |-> recs[p[n]]]

\* key -> (start_date, end_date, client_id, client_registration_number,
\* firm_registration_number) of a merge result, as a set of pairs.
ReconciledFields(out) ==
    { << RecordKey(out[n]),
         << Get(out[n], "start_date"), Get(out[n], "end_date"), Get(out[n], "client_id"),
            Get(out[n], "client_registration_number"),
            Get(out[n], "firm_registration_number") >> >> : n \in 1..Len(out) }

\* C1: merging any permutation of the list gives the same mapping from
\* identity key to reconciled dates and identifiers as merging the list.
C1_OrderIndependent ==
    pc = "done" =>
        \A p \in Permutations(1..Len(given)) :
            ReconciledFields(merge_client_records(Permuted(given, p))) = ReconciledFields(result)

\* The two records of the specification's end-to-end scenario.
ScenarioRecords ==
    << RawRecord(<< "FTI Consulting", "Acme Corp" >>, [start_date |-> "01/15/2023"]),
       RawRecord(<< "FTI CONSULTING", "ACME CORP" >>,
                 [end_date |-> "2023-12-31", client_registration_number |-> "C-99"]) >>

\* C2: merging the scenario's two records gives exactly one record, with
\* start_date 2023-01-15, end_date 2023-12-31 and registration number C-99.
C2_EndToEndScenario ==
    (pc = "done" /\ given = ScenarioRecords) =>
        /\ Len(result) = 1
        /\ Get(result[1], "start_date") = "2023-01-15"
        /\ Get(result[1], "end_date") = "2023-12-31"
        /\ Get(result[1], "client_registration_number") = "C-99"

\* C3: at every point of the pass the canonical collection holds exactly one
\* record for each identity seen so far: no two of its records are reports
\* of one relationship, every record read so far has its canonical record
\* (so none is ever removed), and what is returned is that collection.
C3_OneRecordPerKey ==
    /\ \A a, b \in 1..Len(Canonical) : SameIdentity(Canonical[a], Canonical[b]) => a = b
    /\ \A n \in 1..(cursor - 1) : \E a \in 1..Len(Canonical) : SameIdentity(Canonical[a], given[n])
    /\ \A a \in 1..Len(Canonical) : \E n \in 1..(cursor - 1) : SameIdentity(Canonical[a], given[n])
    /\ pc = "done" => result = Canonical

C3_Witness ==
    /\ pc = "done"
    /\ Len(given) = 3
    /\ Len(result) = 2
    /\ given[1]["client_name"] # given[3]["client_name"]
    /\ SameIdentity(given[1], given[3])

\* C4: in every step, each identifier a canonical record holds non-empty
\* stays as it is, and an identifier it lacks is taken from the record
\* merged into it (in a step that does not end the call with an exception)
\* when that record has it non-empty, and otherwise stays.
C4_FillNotOverride ==
    [][\A n \in 1..Len(merged) : \A k \in 1..Len(id_fields) :
          LET old == Get(records[merged[n].ref], id_fields[k])
              new == Get(records'[merged[n].ref], id_fields[k])
              Merges(m) == MergesInto(m) /\ pc' # "raised"
          IN  /\ Truthy(old) => new = old
              /\ (~Truthy(old) /\ Merges(n) /\ Truthy(Get(records[cursor], id_fields[k])))
                    => new = records[cursor][id_fields[k]]
              /\ (~Truthy(old) /\ ~(Merges(n) /\ Truthy(Get(records[cursor], id_fields[k]))))
                    => new = old]_vars

\* A record without the registration number took C-99 from the first later
\* record to have one, and kept it when a third record offered X123.
C4_Witness ==
    /\ pc = "done"
    /\ Len(given) = 3
    /\ Len(result) = 1
    /\ ~Truthy(Get(given[1], "client_registration_number"))
    /\ Get(given[2], "client_registration_number") = "C-99"
    /\ Get(given[3], "client_registration_number") = "X123"
    /\ Get(result[1], "client_registration_number") = "C-99"

\* C5: when a record is merged into a canonical record and both start dates
\* normalise to ISO dates, the canonical start_date becomes the earlier of
\* the two normalised dates; likewise end_date becomes the later of the two.
C5_EarliestStartLatestEnd ==
    [][\A n \in 1..Len(merged) : MergesInto(n) =>
          LET old == records[merged[n].ref]
              new == records'[merged[n].ref]
              rec == records[cursor]
              start1 == normalize_date(Get(old, "start_date"))
              start2 == normalize_date(Get(rec, "start_date"))
              end1 == normalize_date(Get(old, "end_date"))
              end2 == normalize_date(Get(rec, "end_date"))
          IN  /\ (IsIsoDate(start1) /\ IsIsoDate(start2))
                    => Get(new, "start_date") = EarlierOf(start1, start2)
              /\ (IsIsoDate(end1) /\ IsIsoDate(end2))
                    => Get(new, "end_date") = LaterOf(end1, end2)]_vars

\* Starts 2023-06-01 and 01/15/2023 gave 2023-01-15, ends 2023-06-30 and
\* 2023-12-31 gave 2023-12-31.
C5_Witness ==
    /\ pc = "done"
    /\ Len(given) = 3
    /\ Len(result) = 1
    /\ Get(given[1], "start_date") = "2023-06-01"
    /\ Get(given[2], "start_date") = "01/15/2023"
    /\ Get(given[1], "end_date") = "2023-06-30"
    /\ Get(given[3], "end_date") = "2023-12-31"
    /\ Get(result[1], "start_date") = "2023-01-15"
    /\ Get(result[1], "end_date") = "2023-12-31"

\* C6: when a record is merged into a canonical record, a date that only the
\* incoming record has in a form that normalises to an ISO date becomes the
\* canonical date, and when neither normalises to an ISO date the canonical
\* date is left as it was; for start_date and for end_date.
C6_UnparseableDates ==
    [][\A n \in 1..Len(merged) : (MergesInto(n) /\ pc' # "raised") =>
          \A f \in {"start_date", "end_date"} :
              LET old == records[merged[n].ref]
                  new == records'[merged[n].ref]
                  d1 == normalize_date(Get(old, f))
                  d2 == normalize_date(Get(records[cursor], f))
              IN  /\ (~IsIsoDate(d1) /\ IsIsoDate(d2)) => Get(new, f) = d2
                  /\ (~IsIsoDate(d1) /\ ~IsIsoDate(d2)) => Get(new, f) = Get(old, f)]_vars

\* The first record read for the identity of canonical record number a.
FirstSeen(a) ==
    given[CHOOSE n \in 1..Len(given) :
              /\ SameIdentity(given[n], Canonical[a])
              /\ \A m \in 1..(n - 1) : ~SameIdentity(given[m], Canonical[a])]

\* C9: every canonical record carries the firm_name and client_name of the
\* first record read for its identity, exactly as given, at every point of
\* the pass and in what is returned.
C9_FirstSeenNames ==
    /\ \A a \in 1..Len(Canonical) :
          /\ Get(Canonical[a], "firm_name") = Get(FirstSeen(a), "firm_name")
          /\ Get(Canonical[a], "client_name") = Get(FirstSeen(a), "client_name")
    /\ pc = "done" => result = Canonical

\* Two spellings of one relationship were merged and the first is kept.
C9_Witness ==
    /\ pc = "done"
    /\ Len(given) = 2
    /\ Len(result) = 1
    /\ given[1]["client_name"] = "ACME CORP"
    /\ given[2]["client_name"] = "Acme Corp"
    /\ result[1]["client_name"] = "ACME CORP"
    /\ result[1]["firm_name"] = "FTI CONSULTING"

\* Every field of every record of the list is a str or None.
StringFields(recs) ==
    \A n \in 1..Len(recs) : \A f \in DOMAIN recs[n] : recs[n][f] = None \/ IsStr(recs[n][f])

\* The values the records given for the identity of rec carry in field f.
GivenValues(rec, f) ==
    { Get(given[n], f) : n \in {m \in 1..Len(given) : SameIdentity(given[m], rec)} }

\* C12: on a list of records whose fields are strings or None the call never
\* ends with an exception, no turn of its loop is about to end with one, and
\* every date of what it returns is None, an ISO date or a string as given.
C12_MergeNeverRaises ==
    StringFields(given) =>
        /\ pc # "raised"
        /\ (pc = "merge" /\ cursor <= Len(records)) => MergeStep(MergeState, cursor).exc = None
        /\ pc = "done" =>
              \A n \in 1..Len(result) : \A f \in {"start_date", "end_date"} :
                  \/ Get(result[n], f) \in GivenValues(result[n], f)
                  \/ IsIsoDate(Get(result[n], f))

\* Records with dates in no known format were merged and the call returned,
\* the dates as they were given.
C12_Witness ==
    /\ pc = "done"
    /\ Len(given) = 3
    /\ Len(result) = 1
    /\ Get(given[1], "end_date") = "not a date"
    /\ Get(given[2], "start_date") = "2023-06-01"
    /\ Get(result[1], "end_date") = "not a date"
    /\ Get(result[1], "start_date") = "1 Jan"

\* C13: when merge_client_records returns, every record of the list it was
\* given has the field values it had when the call began.
C13_InputUnchanged ==
    pc = "done" => records = given

(***************************************************************************)
(* Properties of normalize_firm_name and generate_client_id                *)
(***************************************************************************)
\* C7: normalising what normalize_firm_name returned gives it back, whatever
\* the name normalised first.
C7_NormalizeIdempotent ==
    (pc = "returned" /\ Len(name_out) = 2) => name_out[2] = name_out[1]

\* C8: two pairs of names whose firm names normalise alike and whose client
\* names normalise alike get the same key, in whichever order the two keys
\* are computed.
C8_KeyOfNormalizedNames ==
    (key_a # None /\ key_b # None) =>
        ((/\ normalize_firm_name(pair_a[1]) = normalize_firm_name(pair_b[1])
          /\ normalize_firm_name(pair_a[2]) = normalize_firm_name(pair_b[2]))
            => key_a = key_b)

\* Two pairs that differ as given and agree once normalised got one key.
C8_Witness ==
    /\ pc = "returned"
    /\ pair_a = << "FTI Consulting", "Acme Corp" >>
    /\ pair_b = << "F.T.I. CONSULTING", "ACME  Corp." >>
    /\ key_a = key_b
    /\ key_a # None

\* Corporate suffixes as names end with them, in several cases, after space.
SuffixEndings == { " Inc", " INC.", " LTD.", " ltd", " plc", " Corp." }

EndsWith(text, ending) ==
    /\ Len(text) >= Len(ending)
    /\ SubSeq(text, Len(text) - Len(ending) + 1, Len(text)) = ending

WithoutEnding(text, ending) == SubSeq(text, 1, Len(text) - Len(ending))

\* C16: a name that ends with a corporate suffix normalises to what the name
\* without that suffix normalises to.
C16_SuffixInsensitive ==
    (name_out # <<>> /\ name_in # None) =>
        \A ending \in SuffixEndings :
            EndsWith(name_in, ending)
                => name_out[1] = normalize_firm_name(WithoutEnding(name_in, ending))

\* C17: what normalize_firm_name returns holds only upper-case letters,
\* digits and single spaces, with no space at either end, and is the empty
\* string for None and for the empty string.
C17_OnlyUpperAlnumAndSpaces ==
    name_out # <<>> =>
        LET out == Chars(name_out[1])
        IN  /\ \A n \in 1..Len(out) : IsUpperChar(out[n]) \/ IsDigitChar(out[n]) \/ out[n] = " "
            /\ \A n \in 1..(Len(out) - 1) : ~(out[n] = " " /\ out[n + 1] = " ")
            /\ out # <<>> => (out[1] # " " /\ out[Len(out)] # " ")
            /\ name_in \in {None, ""} => name_out[1] = ""

(***************************************************************************)
(* Properties of aggregate                                                 *)
(***************************************************************************)
\* C10: whatever the scrapers returned, every record aggregate passes to
\* merge_client_records, and every record merge_client_records reads or
\* holds, has a non-empty firm_name and a non-empty client_name.
C10_OnlyValidRecordsMerged ==
    (caller = "aggregate" /\ pc \in {"merge", "done", "returned"}) =>
        /\ \A n \in 1..Len(given) :
              /\ Get(given[n], "firm_name") \notin {None, ""}
              /\ Get(given[n], "client_name") \notin {None, ""}
        /\ \A n \in 1..Len(records) :
              /\ Get(records[n], "firm_name") \notin {None, ""}
              /\ Get(records[n], "client_name") \notin {None, ""}

\* The scrapers returned records without a name among others, and the
\* others were passed on.
C10_Witness ==
    /\ caller = "aggregate"
    /\ pc = "merge"
    /\ Len(given) >= 2
    /\ \E n \in 1..Len(all_results) : Get(all_results[n], "client_name") = None
    /\ \E n \in 1..Len(all_results) : Get(all_results[n], "firm_name") = ""

(***************************************************************************)
(* Properties of validate_record and normalize_date                        *)
(***************************************************************************)
\* The record has the field, and not None or the empty string in it.
PresentNonEmpty(record, field) ==
    field \in DOMAIN record /\ record[field] # None /\ record[field] # ""

\* C11: validate_record returns True exactly for the records that have both
\* firm_name and client_name, neither None nor empty, whatever else they hold.
C11_ValidIffBothNames ==
    pc = "returned" /\ valid_out # <<>> =>
        (valid_out[1] <=> (PresentNonEmpty(rec_in, "firm_name")
                             /\ PresentNonEmpty(rec_in, "client_name")))

\* A record with dates and identifiers and an empty firm_name was rejected.
C11_Witness ==
    /\ pc = "returned"
    /\ valid_out = << FALSE >>
    /\ "firm_name" \in DOMAIN rec_in
    /\ rec_in["firm_name"] = ""
    /\ Get(rec_in, "client_name") = "FTI Consulting"
    /\ Get(rec_in, "client_registration_number") = "X123"

\* The text matches none of the known formats once trimmed.
MatchesNoFormat(text) ==
    \A k \in 1..Len(date_formats) : ~strptime(Strip(Chars(text)), date_formats[k]).ok

\* C14: normalize_date returns None for None and for the empty string, and
\* for a non-empty string that matches no known format it returns the string
\* trimmed of the whitespace around it.
C14_UnparsedReturnedTrimmed ==
    pc = "returned" /\ date_out # <<>> =>
        /\ date_in \in {None, ""} => date_out[1] = None
        /\ (IsStr(date_in) /\ date_in # "" /\ MatchesNoFormat(date_in))
              => date_out[1] = Str(Strip(Chars(date_in)))

\* The formats in the order of priority the claim gives them: YYYY-MM-DD,
\* DD/MM/YYYY, MM/DD/YYYY, DD-MM-YYYY, YYYY/MM/DD, DD Month YYYY,
\* Month DD, YYYY and YYYYMMDD.
PriorityFormats ==
    << << "%Y", "-", "%m", "-", "%d" >>,
       << "%d", "/", "%m", "/", "%Y" >>,
       << "%m", "/", "%d", "/", "%Y" >>,
       << "%d", "-", "%m", "-", "%Y" >>,
       << "%Y", "/", "%m", "/", "%d" >>,
       << "%d", " ", "%B", " ", "%Y" >>,
       << "%B", " ", "%d", ",", " ", "%Y" >>,
       << "%Y", "%m", "%d" >> >>

\* The formats of the list that parse the whole text, by their positions.
Parsing(text) == { k \in 1..Len(PriorityFormats) : strptime(text, PriorityFormats[k]).ok }

First(ks) == CHOOSE k \in ks : \A other \in ks : k <= other

\* A date as YYYY-MM-DD: four digits, two digits, two digits.
Pad4(n) == Str(<< Chr(48 + (n \div 1000)), Chr(48 + ((n \div 100) % 10)),
                  Chr(48 + ((n \div 10) % 10)), Chr(48 + (n % 10)) >>)

IsoText(dt) == Pad4(dt.Y) \o "-" \o Str(Pad2(dt.m)) \o "-" \o Str(Pad2(dt.d))

FirstParse(text) == strptime(text, PriorityFormats[First(Parsing(text))])

\* C15: for a string that some known format parses once it is trimmed,
\* normalize_date returns the date the first such format in the order of
\* priority reads in it, as YYYY-MM-DD.
C15_FirstFormatWinsAsIso ==
    (pc = "returned" /\ date_out # <<>> /\ IsStr(date_in) /\ date_in # ""
        /\ Parsing(Strip(Chars(date_in))) # {})
      => date_out[1] = IsoText(FirstParse(Strip(Chars(date_in))))

\* aggregate is past its gather: every task it scheduled has ended and the
\* results have been gone through, or there was no task.
PastGather == caller = "aggregate" /\ pc \notin {"schedule", "gather"}

\* The lists the tasks that succeeded returned, one after the other in the
\* order of the tasks, from the t-th task on.
RECURSIVE Succeeded(_)
Succeeded(t) ==
    IF t > Len(outcomes) THEN << >>
    ELSE IF outcomes[t].kind = "list" THEN outcomes[t].value \o Succeeded(t + 1)
    ELSE Succeeded(t + 1)

\* C18: whichever sources failed, while being scheduled or while running,
\* the run does not end with an exception and the records handed to
\* validation and merge are the lists of the sources that succeeded, one
\* after the other (sources that return records with string fields).
C18_FailuresIsolated ==
    (PastGather /\ StringFields(Succeeded(1))) =>
        /\ pc # "raised"
        /\ all_results = Succeeded(1)

\* C19: aggregate calls validation and merge at most once, only when every
\* task it scheduled has ended, no step of the merge runs while a task is
\* pending, and when aggregate has ended it has called them once.
C19_MergeOnceAfterAllTasks ==
    caller = "aggregate" =>
        /\ merge_calls <= 1
        /\ (merge_calls = 1 \/ pc = "merge") =>
              /\ Len(outcomes) = Len(tasks)
              /\ \A t \in 1..Len(outcomes) : outcomes[t] # Pending
        /\ pc \in {"merge", "done"} => merge_calls = 1
        /\ pc \in {"returned", "raised"} => merge_calls = 1

\* No task returned a record with both names.
NoValidRecord ==
    \A t \in 1..Len(outcomes) : \A n \in 1..Len(outcomes[t].value) :
        ~(PresentNonEmpty(outcomes[t].value[n], "firm_name")
            /\ PresentNonEmpty(outcomes[t].value[n], "client_name"))

\* C20: when no source yields a valid record, because it failed, returned
\* nothing or returned only records without a name, aggregate does not end
\* with an exception and what it returns is the empty list.
C20_NoValidRecordsGivesEmpty ==
    (PastGather /\ NoValidRecord) =>
        /\ pc # "raised"
        /\ pc = "returned" => merged_results = << >>

\* The keys of all the records of a list.
AllKeys(results) == UNION { DOMAIN results[n] : n \in 1..Len(results) }

\* C21: saving a record set as CSV succeeds whatever the key sets of its
\* records are; the columns of the file are the union of the keys of all the
\* records, and every record is written as a row that has the empty text in
\* the columns the record lacks.
C21_CsvColumnsAreUnionOfKeys ==
    (save_format = "csv" /\ pc # "save_results") =>
        /\ pc = "returned"
        /\ save_results_in # << >> =>
              /\ Len(written) = Len(save_results_in) + 1
              /\ written[1] = CsvHeader(AllKeys(save_results_in))
              /\ \A n \in 1..Len(save_results_in) :
                    written[n + 1] =
                        [k \in AllKeys(save_results_in) |->
                            IF k \in DOMAIN save_results_in[n]
                            THEN CellText(save_results_in[n][k]) ELSE ""]

\* The texts of the items of the lists a page can have.
ItemTexts == UNION { { e.items[k] : k \in 1..Len(e.items) } : e \in Elements }

\* clean_client_name of each of them
CleanedTexts == [text \in ItemTexts |-> clean_client_name(text)]

\* The texts scrape_lobbyfacts gives to is_valid_client, the items as they
\* are and cleaned, and those among them that it accepts.
CheckedTexts == ItemTexts \cup { CleanedTexts[text] : text \in ItemTexts }

AcceptedTexts == { name \in CheckedTexts : is_valid_client(name) }

Letters == "abcdefghijklmnopqrstuvwxyz"

ContainsLetter(name) ==
    \E n \in 1..Len(name) : \E k \in 1..Len(Letters) :
        LowerChar(SubSeq(name, n, n)) = SubSeq(Letters, k, k)

ContainsFilterTerm(name) ==
    \E term \in FILTER_TERMS : \E n \in 1..Len(name) :
        n + Len(term) - 1 <= Len(name)
            /\ LowerSeq(Chars(SubSeq(name, n, n + Len(term) - 1))) = Chars(term)

\* The texts that have a letter, three characters or more and no filter term.
WellFormedTexts ==
    { name \in CheckedTexts :
        ContainsLetter(name) /\ Len(name) >= 3 /\ ~ContainsFilterTerm(name) }

\* The texts of the items of the page, as they are and cleaned.
CheckedNames ==
    UNION { UNION { { page[n].items[k], CleanedTexts[page[n].items[k]] } :
                      k \in 1..Len(page[n].items) } : n \in 1..Len(page) }

\* C22: is_valid_client accepts a name only if it has a letter, has three
\* characters or more and contains no filter term in any case; it rejects
\* '123', 'A', 'Search', 'About' and 'Categories' and accepts 'Valid Company
\* Inc' and 'Another Corporation Ltd'.
C22_ValidClientNames ==
    /\ \A n \in 1..Len(clients) : clients[n].client_name \in WellFormedTexts
    /\ \A name \in CheckedNames :
          /\ name \in AcceptedTexts => name \in WellFormedTexts
          /\ name \in { "123", "A", "Search", "About", "Categories" } =>
                name \notin AcceptedTexts
          /\ name \in { "Valid Company Inc", "Another Corporation Ltd" } =>
                name \in AcceptedTexts

C22_Witness ==
    /\ pc = "returned"
    /\ { "123", "A", "Search", "About", "Categories" } \subseteq CheckedNames
    /\ [n \in 1..Len(clients) |-> clients[n].client_name]
          = << "Valid Company Inc", "Another Corporation Ltd", "Valid Client Inc",
               "Another Valid Corp" >>

\* The cleaned texts of the items of the lists at the given positions of a
\* page, list after list.
RECURSIVE CleanedItems(_, _, _)
CleanedItems(elements, lists, n) ==
    IF n > Len(lists) THEN << >>
    ELSE [k \in 1..Len(elements[lists[n]].items) |-> CleanedTexts[elements[lists[n]].items[k]]]
            \o CleanedItems(elements, lists, n + 1)

\* The accepted names among the first n of names, each where it is first.
RECURSIVE FirstFound(_, _)
FirstFound(names, n) ==
    IF n = 0 THEN << >>
    ELSE IF names[n] \in AcceptedTexts /\ \A k \in 1..(n - 1) : names[k] # names[n]
         THEN Append(FirstFound(names, n - 1), names[n])
         ELSE FirstFound(names, n - 1)

FirstFoundOf(names) == FirstFound(names, Len(names))

\* For every page, the accepted names the two strategies find in it, in the
\* order they first find them.
ExpectedNames ==
    [elements \in Pages |->
        FirstFoundOf(CleanedItems(elements,
                                  SectionLists(elements, 1) \o LargeLists(elements, 1), 1))]

ClientNames == [n \in 1..Len(clients) |-> clients[n].client_name]

IsPrefix(short, long) == Len(short) <= Len(long) /\ short = SubSeq(long, 1, Len(short))

\* C29: the client names scrape_lobbyfacts has collected and returns are
\* pairwise distinct, each passes is_valid_client, and they stand in the
\* order in which the two strategies first found them: with no url it returns
\* no name, and else all the accepted names found, or none when the request
\* failed.
C29_DistinctValidInFirstFoundOrder ==
    /\ Cardinality({ clients[n].client_name : n \in 1..Len(clients) }) = Len(clients)
    /\ \A n \in 1..Len(clients) : clients[n].client_name \in AcceptedTexts
    /\ IsPrefix(ClientNames, ExpectedNames[page])
    /\ pc = "returned" =>
          \/ ClientNames = ExpectedNames[page]
          \/ ClientNames = << >> /\ scan = 1
    /\ (pc = "returned" /\ url = None) => ClientNames = << >>

C29_Witness ==
    /\ pc = "returned"
    /\ Len(page) = 3
    /\ page[1].tag = "ol"
    /\ ClientNames = << "Valid Client Inc", "Another Valid Corp", "Acme Holdings",
                        "Gamma Works (a)" >>

\* The formats of parse_date in the order the claim gives them: MM/DD/YYYY,
\* YYYY-MM-DD, 'Month DD, YYYY', 'Mon DD, YYYY', MM-DD-YYYY and DD-Mon-YYYY.
FaraPriorityFormats ==
    << << "%m", "/", "%d", "/", "%Y" >>,
       << "%Y", "-", "%m", "-", "%d" >>,
       << "%B", " ", "%d", ",", " ", "%Y" >>,
       << "%b", " ", "%d", ",", " ", "%Y" >>,
       << "%m", "-", "%d", "-", "%Y" >>,
       << "%d", "-", "%b", "-", "%Y" >> >>

\* The formats of that list that parse the whole text, by their positions.
FaraParsing(text) ==
    { k \in 1..Len(FaraPriorityFormats) : strptime(text, FaraPriorityFormats[k]).ok }

\* The text is a date in none of the notations the repository reads.
IsNoDate(text) == FaraParsing(Strip(Chars(text))) = {} /\ Parsing(Strip(Chars(text))) = {}

\* C23: for a string that one of its formats parses, parse_date returns the
\* date the first such format reads in it, as YYYY-MM-DD; for the empty
\* string and for a string that is no date it returns None.
C23_ParseDateIsoOrNone ==
    (pc = "returned" /\ date_out # <<>> /\ date_in # None) =>
        /\ FaraParsing(Strip(Chars(date_in))) # {} =>
              date_out[1] = IsoText(strptime(Strip(Chars(date_in)),
                                FaraPriorityFormats[First(FaraParsing(Strip(Chars(date_in))))]))
        /\ date_in = "" => date_out[1] = None
        /\ IsNoDate(date_in) => date_out[1] = None

\* A date value is absent, None or empty.
NoDate(v) == v \in { None, "" }

\* A date value is a text that a known format parses.
Parseable(v) == IsStr(v) /\ ~NoDate(v) /\ Parsing(Strip(Chars(v))) # {}

\* Every start_date and end_date of the records given is absent, empty or
\* parseable.
DatesWellFormed ==
    \A n \in 1..Len(given) : \A f \in { "start_date", "end_date" } :
        NoDate(Get(given[n], f)) \/ Parseable(Get(given[n], f))

\* The day a parseable text names, as a number that grows with time.
DayOf(v) ==
    FirstParse(Strip(Chars(v))).Y * 10000 + FirstParse(Strip(Chars(v))).m * 100
        + FirstParse(Strip(Chars(v))).d

\* The values of field f that the records given for the identity of rec carry.
Contributed(rec, f) == { v \in GivenValues(rec, f) : ~NoDate(v) }

\* C24: when every date given is absent, empty or parseable, the start_date
\* of each canonical record returned normalises to the normalised earliest
\* of the start dates given for its identity, its end_date to the normalised
\* latest of the end dates given, and a date no record gave is null.
C24_DateRangeIsMinMax ==
    (pc = "done" /\ DatesWellFormed) =>
        \A n \in 1..Len(result) :
            /\ \A v \in Contributed(result[n], "start_date") :
                  (\A w \in Contributed(result[n], "start_date") : DayOf(v) <= DayOf(w))
                      => normalize_date(Get(result[n], "start_date")) = normalize_date(v)
            /\ \A v \in Contributed(result[n], "end_date") :
                  (\A w \in Contributed(result[n], "end_date") : DayOf(v) >= DayOf(w))
                      => normalize_date(Get(result[n], "end_date")) = normalize_date(v)
            /\ \A f \in { "start_date", "end_date" } :
                  Contributed(result[n], f) = {} => normalize_date(Get(result[n], f)) = None

\* C25: merging what merge_client_records returned returns it again: the
\* same records with the same field values in the same order, and no
\* exception.
C25_MergeIdempotent ==
    pc = "done" =>
        /\ MergeRun(result).exc = None
        /\ merge_client_records(result) = result

\* Three records of two relationships were merged into two, the first of
\* them changed by the merge.
C25_Witness ==
    /\ pc = "done"
    /\ Len(given) = 3
    /\ Len(result) = 2
    /\ result[1] # given[1]
    /\ SameIdentity(given[1], given[3])

\* The fields a merge step writes.
MergedFields ==
    { "start_date", "end_date", "client_id", "client_registration_number",
      "firm_registration_number" }

\* Record out has every other field exactly as record first has it: present
\* in both with one value, or absent from both.
OtherFieldsOf(out, first) ==
    \A f \in (DOMAIN out \cup DOMAIN first) \ MergedFields :
        f \in DOMAIN out /\ f \in DOMAIN first /\ out[f] = first[f]

\* C26: a merge step leaves every field but the two dates and the three
\* identifiers alone: each canonical record, during the pass and as
\* returned, has every other field with the value and the presence it has in
\* the first record read for its identity, whatever later records carry.
C26_OtherFieldsUntouched ==
    /\ \A a \in 1..Len(Canonical) : OtherFieldsOf(Canonical[a], FirstSeen(a))
    /\ pc = "done" =>
          /\ Len(result) = Len(Canonical)
          /\ \A a \in 1..Len(result) : OtherFieldsOf(result[a], FirstSeen(a))

\* A later record of the relationship carried a country the first did not,
\* and the canonical record has none.
C26_Witness ==
    /\ pc = "done"
    /\ Len(given) = 2
    /\ Len(result) = 1
    /\ "client_country" \notin DOMAIN given[1]
    /\ Get(given[2], "client_country") = "CY"
    /\ "client_country" \notin DOMAIN result[1]
    /\ Get(given[2], "client_id") = "K7"
    /\ Get(result[1], "client_id") = "K7"

\* The records validate_record accepts, each with its key.
AcceptedKeys == [rec \in { r \in CheckedRecords : validate_record(r) } |-> RecordKey(rec)]

\* The letters and digits of a name, in their order.
AlphanumericContent(name) ==
    SelectSeq(Chars(name), LAMBDA c : IsLowerChar(c) \/ IsUpperChar(c) \/ IsDigitChar(c))

\* C27: a record validate_record accepts has a firm name and a client name
\* that are not empty once normalised, so no accepted record whose client
\* name has other letters and digits shares its key because both client
\* names normalise to the empty string.
C27_AcceptedNamesNormaliseNonEmpty ==
    (pc = "returned" /\ valid_out = << TRUE >>) =>
        /\ normalize_firm_name(rec_in["firm_name"]) # ""
        /\ normalize_firm_name(rec_in["client_name"]) # ""
        /\ \A other \in DOMAIN AcceptedKeys :
              (/\ AlphanumericContent(other["client_name"])
                     # AlphanumericContent(rec_in["client_name"])
               /\ AcceptedKeys[other] = AcceptedKeys[rec_in])
                  => normalize_firm_name(rec_in["client_name"]) # ""

\* normalize_firm_name of the names generate_client_id is called with
NormalisedKeyNames == [name \in KeyNames |-> normalize_firm_name(name)]

\* The normalised firm name and the normalised client name of a pair.
NormalisedPair(pair) == << NormalisedKeyNames[pair[1]], NormalisedKeyNames[pair[2]] >>

\* C28: no normalised name contains a colon, and two pairs of names that
\* differ in the normalised firm name or in the normalised client name are
\* hashed from different strings and so get different keys.
C28_KeySeparatesFirmAndClient ==
    (key_a # None /\ key_b # None) =>
        /\ \A name \in { pair_a[1], pair_a[2], pair_b[1], pair_b[2] } :
              ~Contains(Chars(NormalisedKeyNames[name]), << ":" >>)
        /\ NormalisedPair(pair_a) # NormalisedPair(pair_b) =>
              key_a[2] # key_b[2] /\ key_a # key_b

\* The pairs ('A:A', 'A') and ('A', 'A:A') got different keys.
C28_Witness ==
    /\ pc = "returned"
    /\ pair_a = << "A:A", "A" >>
    /\ pair_b = << "A", "A:A" >>
    /\ key_a # key_b
    /\ key_a[2] = "AA:A"
    /\ key_b[2] = "A:AA"

\* The n-th virtual_display context has been left, by any of its exits.
DisplayLeft(n) == managers[n].at \in { "returned", "body raised", "start raised" }

\* Every context that was left had stop called, every manager stop was called
\* on holds no process, and an Xvfb process runs only while the context of the
\* manager that holds it is open.
DisplayReleased ==
    /\ \A n \in 1..Len(managers) :
        /\ DisplayLeft(n) => managers[n].stop_calls >= 1
        /\ managers[n].stop_calls >= 1 => managers[n].xvfb_process = None
    /\ \A p \in 1..Len(processes) :
        processes[p] = "running"
            => \E n \in 1..Len(managers) :
                /\ managers[n].at = "body"
                /\ managers[n].xvfb_process = Popen(p)

\* A step that calls stop on a manager without a process changes nothing but
\* the count of the calls.
StopWithoutProcessIsNoOp ==
    \A n \in 1..Len(managers) :
        /\ managers[n].xvfb_process = None
        /\ managers'[n].stop_calls > managers[n].stop_calls
        => /\ managers'[n].xvfb_process = None
           /\ processes' = processes
           /\ environ_display' = environ_display

=============================================================================
